---- MODULE Spec2Model ----
(***************************************************************************)
(* Model of the proposal-correlation core of script/stress_shasta_proposal *)
(* (class BatchMonitor): the L1 inclusion resolver with its cache, the     *)
(* proposal grouper and the L2 correlation pass.                           *)
(*                                                                         *)
(* Encodings.  Python None is the integer None (-1): every proposal id,    *)
(* block number and anchor number of the program is >= 0.  An             *)
(* Optional[AnchorTxInfo] / Optional[ProposalGroup] is a sequence of       *)
(* length 0 (None) or 1.  A dict is a function whose DOMAIN is its key set.*)
(*                                                                         *)
(* The byte-level part models script/shasta_event_decoder                  *)
(* (class ShastaEventDecoder).  A bytes object is a sequence of integers   *)
(* 0..255 and data[pos] is its element pos + 1.  A str of hex digits is a  *)
(* sequence of one-character strings.  A Python int read from 6 bytes does *)
(* not fit a 32-bit integer of TLC: it is its base-256 numeral, most       *)
(* significant digit first and without leading zero digits (0 is <<>>);    *)
(* integers read from 1, 2 or 3 bytes are integers.  A call yields         *)
(* [outcome |-> "return", ...] or [outcome |-> "raise", error |-> e],      *)
(* where e holds what the raised ValueError carries.                       *)
(***************************************************************************)
EXTENDS Integers, Sequences, FiniteSets, TLC

\* ------------------------------------------------------------------ bounds
MaxId == 2          \* proposal ids of the resolver session are 1..MaxId
MaxL1Block == 2     \* L1 blocks carrying Proposed events are 1..MaxL1Block
MaxLogs == 2        \* number of Proposed events on the L1 chain
MaxQueries == 2     \* length of a proposal_queries argument
MaxInfos == 3       \* length of an anchor_infos argument
MaxL2Block == 2     \* L2 blocks of a correlation pass are 0..MaxL2Block
MaxAnchor == 2      \* anchor numbers are 1..MaxAnchor
MaxCap == 2         \* max_forward arguments of a scan are 0..MaxCap and the default
MaxReadLen == 33    \* buffers handed to a primitive reader have 0..MaxReadLen bytes
MaxFill == 1        \* byte patterns of those buffers are 0..MaxFill
MaxVariant == 2     \* field values of an event payload: variants 0..MaxVariant
MaxSources == 2     \* derivation sources of an event payload
MaxBlobs == 1       \* blob hashes of a derivation source
MaxTrunc == 2       \* bytes cut from the end of an event payload
MaxTail == 2        \* bytes appended to an event payload
MaxExtraTail == 2   \* bytes of an extraData field after its proposal id
MaxInputTail == 1   \* bytes of an anchor call-input after its three words

\* ------------------------------------------------------- program constants
None == -1
IndividualSearchSpan == 128
NormalSearchAhead == 96
BondSearchBack == 200
BondOffset == 6
MaxForward == 100

\* --------------------------------------------------------------- the state
VARIABLES
    l1_logs,               \* the Proposed events the L1 node holds, in the order get_logs returns them
    proposal_block_cache,  \* self.proposal_block_cache
    call,                  \* the last resolver call: arguments, get_logs calls it made, return value
    first_result,          \* proposal_id -> the value the first call that resolved it returned
    l2_chain,              \* L2 block number -> what parse_l2_block_anchor_tx yields for it
    l2_block_range,        \* self.l2_block_range
    true_range,            \* <<true_start_block, true_end_block>> of the pass
    anchor_infos,          \* the anchor_infos list handed to the grouper
    groups,                \* the list group_blocks_by_proposal_id returned
    pc,                    \* position of the pass / of the grouper run
    scan,                  \* the frame of a running boundary scan: arguments, locals, fetches made
    dec,                   \* a decoder call: the operation, its arguments and what it produced
    run                    \* step 3 of the pass: its locals, self.running_count, the get_logs calls of the pass

vars == <<l1_logs, proposal_block_cache, call, first_result,
          l2_chain, l2_block_range, true_range, anchor_infos, groups, pc, scan, dec, run>>

resolver_vars == <<l1_logs, proposal_block_cache, call, first_result>>
pass_vars == <<l2_chain, l2_block_range, true_range, anchor_infos, groups, pc>>
frame_vars == <<scan, dec>>

\* no boundary scan is running
NoScan ==
    [op |-> "none", block |-> 0, proposal_id |-> 0, max_forward |-> 0, current_block |-> 0,
     last_valid_block |-> 0, checked |-> 0, fetches |-> 0, pc |-> "idle"]

\* no decoder call was made
NoDecode ==
    [op |-> "none", data |-> <<>>, pos |-> 0, fields |-> <<>>, result |-> [outcome |-> "none"]]

\* acc_odds and block_running_ratio are counted in units of 1 / RatioDenominator
RatioDenominator == 2

\* the status server of a run: a task hears the responses of script, one per
\* query, and then tail for ever
NoResponder == [script |-> <<>>, tail |-> "proof"]

\* the pass has not reached step 3: acc_odds = 1, tasks = [], no get_logs call
\* yet; the monitor as constructed (lines 67-93) with the default max_retries,
\* watch_mode and aggregate
NoRun ==
    [block_running_ratio |-> RatioDenominator, acc_odds |-> RatioDenominator, next_group |-> 1,
     resolved |-> <<>>, tasks |-> <<>>, running_count |-> 0, get_logs |-> <<>>,
     max_retries |-> 3, watch_mode |-> FALSE, aggregate |-> 0,
     pending_proposals |-> <<>>, aggregate_posts |-> <<>>, aggregate_requests |-> <<>>,
     aggregate_running_count |-> 0, responder |-> NoResponder]

ProposalIds == 1..MaxId
L1Blocks == 1..MaxL1Block

\* a Proposed log is [blockNumber, id]: the id its payload decodes to, None when it does not decode
\* get_logs returns logs by increasing block number; the chains of the model
\* carry at most one Proposed event per L1 block
IsAscending(logs) ==
    \A i \in 1..(Len(logs) - 1) : logs[i].blockNumber < logs[i + 1].blockNumber

SeqsUpTo(S, n) == UNION {[1..k -> S] : k \in 0..n}

L1Chains(n) ==
    {logs \in SeqsUpTo([blockNumber : L1Blocks, id : ProposalIds \cup {None}], n) :
        IsAscending(logs)}

EmptyDict == [k \in {} |-> None]

\* ------------------------------------------------------------ the resolver
\* _extract_proposal_id_from_proposed_log: the decoded id, None when the log does not decode
_extract_proposal_id_from_proposed_log(log) == log.id

\* variant: to_block is ignored, the query runs to the chain head
get_logs_no_to_block(from_block, to_block) ==
    LET InWindow(log) == from_block <= log.blockNumber
    IN SelectSeq(l1_logs, InWindow)

\* evt_contract.events.Proposed.get_logs(from_block, to_block)
get_logs(from_block, to_block) ==
    LET InWindow(log) == from_block <= log.blockNumber /\ log.blockNumber <= to_block
    IN SelectSeq(l1_logs, InWindow)

\* dict.get(key): None for a missing key
dict_get(d, key) == IF key \in DOMAIN d THEN d[key] ELSE None

\* d[key] = value
dict_set(d, key, value) ==
    [k \in DOMAIN d \cup {key} |-> IF k = key THEN value ELSE d[k]]

\* variant: an id cached as None counts as uncached and is searched again
uncached_queries_retry_none(cache, proposal_queries) ==
    LET NotCached(q) == q[1] \notin DOMAIN cache \/ cache[q[1]] = None
    IN SelectSeq(proposal_queries, NotCached)

\* variant: no cache filter, every requested id is searched again
uncached_queries_no_filter(cache, proposal_queries) == proposal_queries

\* lines 488-492: the queries whose proposal_id is not a key of the cache
uncached_queries(cache, proposal_queries) ==
    LET NotCached(q) == q[1] \notin DOMAIN cache
    IN SelectSeq(proposal_queries, NotCached)

\* variant: a later log with the same id overwrites the entry (last occurrence wins)
RECURSIVE proposal_to_block_last_wins(_, _, _, _)
proposal_to_block_last_wins(logs, i, uncached_proposal_ids, acc) ==
    IF i > Len(logs) THEN acc
    ELSE LET decoded_proposal_id == _extract_proposal_id_from_proposed_log(logs[i])
         IN IF decoded_proposal_id \in uncached_proposal_ids
            THEN proposal_to_block_last_wins(logs, i + 1, uncached_proposal_ids,
                                   dict_set(acc, decoded_proposal_id, logs[i].blockNumber))
            ELSE proposal_to_block_last_wins(logs, i + 1, uncached_proposal_ids, acc)

\* lines 512-525: proposal_id -> blockNumber of the first log that decodes to it
RECURSIVE proposal_to_block(_, _, _, _)
proposal_to_block(logs, i, uncached_proposal_ids, acc) ==
    IF i > Len(logs) THEN acc
    ELSE LET decoded_proposal_id == _extract_proposal_id_from_proposed_log(logs[i])
         IN IF decoded_proposal_id \in uncached_proposal_ids
               /\ decoded_proposal_id \notin DOMAIN acc
            THEN proposal_to_block(logs, i + 1, uncached_proposal_ids,
                                   dict_set(acc, decoded_proposal_id, logs[i].blockNumber))
            ELSE proposal_to_block(logs, i + 1, uncached_proposal_ids, acc)

\* variant: only the ids that were found are written, no None entry
cache_batch_results_found_only(cache, uncached_proposal_ids, found) ==
    [k \in DOMAIN cache \cup (uncached_proposal_ids \cap DOMAIN found) |->
        IF k \in uncached_proposal_ids THEN found[k] ELSE cache[k]]

\* lines 528-538: every uncached id is written, None for the ids without a log
cache_batch_results(cache, uncached_proposal_ids, found) ==
    [k \in DOMAIN cache \cup uncached_proposal_ids |->
        IF k \in uncached_proposal_ids THEN dict_get(found, k) ELSE cache[k]]

\* variant: the except branch only logs and leaves the cache as it was
cache_batch_failure_log_only(cache, uncached_proposal_ids) == cache

\* lines 539-543: the except branch marks every uncached id None
cache_batch_failure(cache, uncached_proposal_ids) ==
    [k \in DOMAIN cache \cup uncached_proposal_ids |->
        IF k \in uncached_proposal_ids THEN None ELSE cache[k]]

\* variant: the query is issued before the cache is consulted
batch_get_logs_calls_always(uncached, search_start, search_end) ==
    << <<search_start, search_end>> >>

\* lines 506-509: the get_logs calls of one batch call
batch_get_logs_calls(uncached, search_start, search_end) ==
    IF uncached = <<>> THEN <<>> ELSE << <<search_start, search_end>> >>

\* variant: every requested id is searched and written again, cached or not
batch_find_proposal_blocks_refresh(cache, proposal_queries, search_start, search_end, query_ok) ==
    LET proposal_ids_to_find == {proposal_queries[i][1] : i \in DOMAIN proposal_queries}
        issued == batch_get_logs_calls(proposal_queries, search_start, search_end)
        logs == IF issued # <<>> /\ query_ok
                THEN get_logs(issued[1][1], issued[1][2]) ELSE <<>>
        cache2 == IF proposal_queries = <<>> THEN cache
                  ELSE IF query_ok
                       THEN cache_batch_results(cache, proposal_ids_to_find,
                                proposal_to_block(logs, 1, proposal_ids_to_find, EmptyDict))
                       ELSE cache_batch_failure(cache, proposal_ids_to_find)
    IN [cache |-> cache2,
        result |-> [id \in proposal_ids_to_find |-> dict_get(cache2, id)],
        get_logs |-> issued,
        searched |-> IF issued # <<>> THEN proposal_ids_to_find ELSE {},
        failed |-> (issued # <<>> /\ ~query_ok),
        logs |-> logs,
        raised |-> FALSE]

\* batch_find_proposal_blocks; query_ok = FALSE: get_logs raises
batch_find_proposal_blocks(cache, proposal_queries, search_start, search_end, query_ok) ==
    LET proposal_ids_to_find == {proposal_queries[i][1] : i \in DOMAIN proposal_queries}
        uncached == uncached_queries(cache, proposal_queries)
        uncached_proposal_ids == {uncached[i][1] : i \in DOMAIN uncached}
        issued == batch_get_logs_calls(uncached, search_start, search_end)
        logs == IF issued # <<>> /\ query_ok
                THEN get_logs(issued[1][1], issued[1][2]) ELSE <<>>
        cache2 == IF uncached = <<>> THEN cache
                  ELSE IF query_ok
                       THEN cache_batch_results(cache, uncached_proposal_ids,
                                proposal_to_block(logs, 1, uncached_proposal_ids, EmptyDict))
                       ELSE cache_batch_failure(cache, uncached_proposal_ids)
    IN [cache |-> cache2,
        result |-> [id \in proposal_ids_to_find |-> dict_get(cache2, id)],
        get_logs |-> issued,
        searched |-> IF issued # <<>> THEN uncached_proposal_ids ELSE {},
        failed |-> (issued # <<>> /\ ~query_ok),
        logs |-> logs,
        raised |-> FALSE]

\* lines 447-460: blockNumber of the first log that decodes to proposal_id, None if there is none
RECURSIVE first_matching_block(_, _, _)
first_matching_block(logs, i, proposal_id) ==
    IF i > Len(logs) THEN None
    ELSE IF _extract_proposal_id_from_proposed_log(logs[i]) = proposal_id
         THEN logs[i].blockNumber
         ELSE first_matching_block(logs, i + 1, proposal_id)

\* variant: the individual search runs without the cache lookup
find_l1_inclusion_block_no_cache(cache, proposal_id, anchor_number, query_ok) ==
    LET search_start == anchor_number + 1
        search_end == anchor_number + IndividualSearchSpan
        logs == IF query_ok THEN get_logs(search_start, search_end) ELSE <<>>
        l1_block_number == IF query_ok THEN first_matching_block(logs, 1, proposal_id)
                           ELSE None
    IN [cache |-> dict_set(cache, proposal_id, l1_block_number),
        result |-> (proposal_id :> l1_block_number),
        get_logs |-> << <<search_start, search_end>> >>, searched |-> {proposal_id},
        failed |-> ~query_ok, logs |-> logs, raised |-> FALSE]

\* find_l1_inclusion_block; query_ok = FALSE: get_logs raises
find_l1_inclusion_block(cache, proposal_id, anchor_number, query_ok) ==
    IF proposal_id \in DOMAIN cache
    THEN [cache |-> cache,
          result |-> (proposal_id :> cache[proposal_id]),
          get_logs |-> <<>>, searched |-> {}, failed |-> FALSE, logs |-> <<>>, raised |-> FALSE]
    ELSE LET search_start == anchor_number + 1
             search_end == anchor_number + IndividualSearchSpan
             logs == IF query_ok THEN get_logs(search_start, search_end) ELSE <<>>
             l1_block_number == IF query_ok THEN first_matching_block(logs, 1, proposal_id)
                                ELSE None
         IN [cache |-> dict_set(cache, proposal_id, l1_block_number),
             result |-> (proposal_id :> l1_block_number),
             get_logs |-> << <<search_start, search_end>> >>, searched |-> {proposal_id},
             failed |-> ~query_ok, logs |-> logs, raised |-> FALSE]

\* the record of a resolver call kept in `call`
CallRecord(op, requested, search, cache, r) ==
    [op |-> op, requested |-> requested, search |-> search,
     hits |-> requested \cap DOMAIN cache,
     get_logs |-> r.get_logs, failed |-> r.failed, logs |-> r.logs,
     result |-> r.result, raised |-> r.raised]

NoCall ==
    [op |-> "none", requested |-> {}, search |-> <<0, 0>>, hits |-> {},
     get_logs |-> <<>>, failed |-> FALSE, logs |-> <<>>,
     result |-> EmptyDict, raised |-> FALSE]

\* the first value returned for each id
RecordFirst(first, result) ==
    [k \in DOMAIN first \cup DOMAIN result |->
        IF k \in DOMAIN first THEN first[k] ELSE result[k]]

ProposalQueries == SeqsUpTo(ProposalIds \X {0}, MaxQueries)

\* search windows of a batch call
SearchWindows == {w \in L1Blocks \X L1Blocks : w[1] <= w[2]}

\* a caller invokes batch_find_proposal_blocks
CallBatchFind ==
    /\ pc = "idle"
    /\ \E proposal_queries \in ProposalQueries, search \in SearchWindows,
          query_ok \in BOOLEAN :
          LET r == batch_find_proposal_blocks(proposal_block_cache, proposal_queries,
                                              search[1], search[2], query_ok)
              requested == {proposal_queries[i][1] : i \in DOMAIN proposal_queries}
          IN /\ proposal_block_cache' = r.cache
             /\ call' = CallRecord("batch", requested, search, proposal_block_cache, r)
             /\ first_result' = RecordFirst(first_result, r.result)
    /\ pc' = "called"
    /\ UNCHANGED <<frame_vars, run>>
    /\ UNCHANGED <<l1_logs, l2_chain, l2_block_range, true_range, anchor_infos, groups>>

\* a caller invokes find_l1_inclusion_block
CallFindL1 ==
    /\ pc = "idle"
    /\ \E proposal_id \in ProposalIds, anchor_number \in 0..MaxL1Block, query_ok \in BOOLEAN :
          LET r == find_l1_inclusion_block(proposal_block_cache, proposal_id,
                                           anchor_number, query_ok)
          IN /\ proposal_block_cache' = r.cache
             /\ call' = CallRecord("find", {proposal_id},
                                   <<anchor_number + 1, anchor_number + IndividualSearchSpan>>,
                                   proposal_block_cache, r)
             /\ first_result' = RecordFirst(first_result, r.result)
    /\ pc' = "called"
    /\ UNCHANGED <<frame_vars, run>>
    /\ UNCHANGED <<l1_logs, l2_chain, l2_block_range, true_range, anchor_infos, groups>>

\* the resolver call returns to its caller
Return ==
    /\ pc = "called"
    /\ call' = NoCall
    /\ pc' = "idle"
    /\ UNCHANGED <<frame_vars, run>>
    /\ UNCHANGED <<l1_logs, proposal_block_cache, first_result,
                   l2_chain, l2_block_range, true_range, anchor_infos, groups>>

Init ==
    /\ l1_logs \in L1Chains(MaxLogs)
    /\ proposal_block_cache = EmptyDict
    /\ call = NoCall
    /\ first_result = EmptyDict
    /\ l2_chain = <<>>
    /\ l2_block_range = <<0, 0>>
    /\ true_range = <<0, 0>>
    /\ anchor_infos = <<>>
    /\ groups = <<>>
    /\ scan = NoScan
    /\ run = NoRun
    /\ dec = NoDecode
    /\ pc = "idle"

Next == CallBatchFind \/ CallFindL1 \/ Return

Spec == Init /\ [][Next]_vars

\* ------------------------------------------------------------- the grouper
AnchorTxInfo(proposal_id, anchor_number, l2_block_number) ==
    [proposal_id |-> proposal_id, anchor_number |-> anchor_number,
     l2_block_number |-> l2_block_number]

ProposalGroup(proposal_id, anchor_number, l2_block_numbers) ==
    [proposal_id |-> proposal_id, anchor_number |-> anchor_number,
     l2_block_numbers |-> l2_block_numbers]

\* variant: every entry starts a group
starts_new_group_always(current_proposal_id, info) == TRUE

\* line 394: the entry starts a new group
starts_new_group(current_proposal_id, info) ==
    current_proposal_id = None \/ info.proposal_id # current_proposal_id

\* variant: the entry that continues a group is not recorded
continue_group_no_append(current_group, info) == current_group

\* variant: the entry that continues a group also overwrites the group's anchor_number
continue_group_update_anchor(current_group, info) ==
    <<[current_group[1] EXCEPT !.l2_block_numbers = Append(@, info.l2_block_number),
                               !.anchor_number = info.anchor_number]>>

\* line 407: current_group.l2_block_numbers.append(info.l2_block_number)
continue_group(current_group, info) ==
    <<[current_group[1] EXCEPT !.l2_block_numbers = Append(@, info.l2_block_number)]>>

\* lines 396-397 and 412-413: if current_group is not None: groups.append(current_group)
append_current_group(grps, current_group) ==
    IF current_group # <<>> THEN Append(grps, current_group[1]) ELSE grps

\* lines 393-415: the scan over anchor_infos
RECURSIVE group_scan(_, _, _, _, _)
group_scan(infos, i, grps, current_proposal_id, current_group) ==
    IF i > Len(infos) THEN append_current_group(grps, current_group)
    ELSE IF starts_new_group(current_proposal_id, infos[i])
         THEN group_scan(infos, i + 1, append_current_group(grps, current_group),
                         infos[i].proposal_id,
                         <<ProposalGroup(infos[i].proposal_id, infos[i].anchor_number,
                                         <<infos[i].l2_block_number>>)>>)
         ELSE group_scan(infos, i + 1, grps, current_proposal_id,
                         continue_group(current_group, infos[i]))

\* group_blocks_by_proposal_id
group_blocks_by_proposal_id(infos) ==
    IF infos = <<>> THEN <<>> ELSE group_scan(infos, 1, <<>>, None, <<>>)

\* anchor_infos arguments: strictly increasing l2_block_number
IncreasingBlocks(k) ==
    {b \in [1..k -> 0..MaxInfos] : \A i \in 1..(k - 1) : b[i] < b[i + 1]}

AnchorInfoSeq(k, ids, anchors, blocks) ==
    [i \in 1..k |-> AnchorTxInfo(ids[i], anchors[i], blocks[i])]

\* a caller invokes group_blocks_by_proposal_id(anchor_infos)
CallGroup ==
    /\ pc = "ungrouped"
    /\ groups' = group_blocks_by_proposal_id(anchor_infos)
    /\ pc' = "grouped"
    /\ UNCHANGED <<frame_vars, run>>
    /\ UNCHANGED <<resolver_vars, l2_chain, l2_block_range, true_range, anchor_infos>>

InitGroup ==
    /\ l1_logs = <<>>
    /\ proposal_block_cache = EmptyDict
    /\ call = NoCall
    /\ first_result = EmptyDict
    /\ l2_chain = <<>>
    /\ l2_block_range = <<0, 0>>
    /\ true_range = <<0, 0>>
    /\ \E k \in 0..MaxInfos :
          \E ids \in [1..k -> ProposalIds], anchors \in [1..k -> 1..MaxAnchor],
             blocks \in IncreasingBlocks(k) :
             anchor_infos = AnchorInfoSeq(k, ids, anchors, blocks)
    /\ groups = <<>>
    /\ scan = NoScan
    /\ run = NoRun
    /\ dec = NoDecode
    /\ pc = "ungrouped"

NextGroup == CallGroup

SpecGroup == InitGroup /\ [][NextGroup]_vars

\* ---------------------------------------------------- the correlation pass
\* proposal ids on the chains of a pass: one whose bond id (id - 6) is not
\* positive and one whose bond id is the other
PassIds == {1, 1 + BondOffset}

L2Blocks == 0..MaxL2Block

\* the L2 chains of a pass: a block does not decode (<<>>) or carries a proposal
\* id and the anchor number of that proposal
L2Chains ==
    {[n \in L2Blocks |->
         IF ids[n] = None THEN <<>>
         ELSE <<[proposal_id |-> ids[n], anchor_number |-> anchors[ids[n]]]>>] :
       ids \in [L2Blocks -> PassIds \cup {None}], anchors \in [PassIds -> 1..MaxAnchor]}

\* a chain longer than the default cap: every block carries the same proposal
LongL2Chains ==
    {[n \in 0..(MaxForward + MaxL2Block) |-> <<[proposal_id |-> id, anchor_number |-> a]>>] :
       id \in PassIds, a \in 1..MaxAnchor}

\* the L1 chains of a pass: each proposal id has at most one Proposed event
\* (None: not proposed), logs ordered by block number
RECURSIVE LogsByBlock(_, _)
LogsByBlock(at, b) ==
    IF b > MaxL1Block THEN <<>>
    ELSE LET here == {id \in DOMAIN at : at[id] = b}
             id_logs(id) == IF id \in here THEN <<[blockNumber |-> b, id |-> id]>> ELSE <<>>
         IN id_logs(1) \o id_logs(1 + BondOffset) \o LogsByBlock(at, b + 1)

PassL1Chains == {LogsByBlock(at, 1) : at \in [PassIds -> L1Blocks \cup {None}]}

\* the requested ranges of a pass
L2Ranges == {r \in L2Blocks \X L2Blocks : r[1] <= r[2]}

\* parse_l2_block_anchor_tx: None for a block that is missing or does not decode
parse_l2_block_anchor_tx(l2_block_number) ==
    IF l2_block_number \in DOMAIN l2_chain /\ l2_chain[l2_block_number] # <<>>
    THEN <<AnchorTxInfo(l2_chain[l2_block_number][1].proposal_id,
                        l2_chain[l2_block_number][1].anchor_number,
                        l2_block_number)>>
    ELSE <<>>

\* lines 1022-1032: the block parses and carries proposal_id
same_proposal(block, proposal_id) ==
    LET anchor_info == parse_l2_block_anchor_tx(block)
    IN anchor_info # <<>> /\ anchor_info[1].proposal_id = proposal_id

\* find_proposal_start_block, lines 1020-1038: the loop goes on while the block
\* parses to proposal_id, every other path breaks
RECURSIVE start_scan(_, _, _)
start_scan(current_block, last_valid_block, proposal_id) ==
    IF current_block >= 0 /\ same_proposal(current_block, proposal_id)
    THEN start_scan(current_block - 1, current_block, proposal_id)
    ELSE last_valid_block

find_proposal_start_block(start_block, proposal_id) ==
    start_scan(start_block - 1, start_block, proposal_id)

\* find_proposal_end_block, lines 1050-1069: the loop goes on while the cap is
\* not reached and the block parses to proposal_id, every other path breaks
RECURSIVE end_scan(_, _, _, _, _)
end_scan(current_block, last_valid_block, checked, proposal_id, max_forward) ==
    IF checked < max_forward /\ same_proposal(current_block, proposal_id)
    THEN end_scan(current_block + 1, current_block, checked + 1, proposal_id, max_forward)
    ELSE last_valid_block

find_proposal_end_block(end_block, proposal_id, max_forward) ==
    end_scan(end_block + 1, end_block, 0, proposal_id, max_forward)

\* lines 1093-1105
true_start_block(start_l2_block, first_block_info) ==
    IF start_l2_block > 0
    THEN LET parent_info == parse_l2_block_anchor_tx(start_l2_block - 1)
         IN IF parent_info # <<>> /\ parent_info[1].proposal_id = first_block_info[1].proposal_id
            THEN find_proposal_start_block(start_l2_block, first_block_info[1].proposal_id)
            ELSE start_l2_block
    ELSE start_l2_block

\* variant: the forward scan is asked for one block only
true_end_block_one_step(end_l2_block) ==
    LET last_block_info == parse_l2_block_anchor_tx(end_l2_block)
    IN IF last_block_info # <<>>
       THEN LET next_block_info == parse_l2_block_anchor_tx(end_l2_block + 1)
            IN IF next_block_info # <<>>
                  /\ next_block_info[1].proposal_id = last_block_info[1].proposal_id
               THEN find_proposal_end_block(end_l2_block, last_block_info[1].proposal_id, 1)
               ELSE end_l2_block
       ELSE end_l2_block

\* lines 1107-1120
true_end_block(end_l2_block) ==
    LET last_block_info == parse_l2_block_anchor_tx(end_l2_block)
    IN IF last_block_info # <<>>
       THEN LET next_block_info == parse_l2_block_anchor_tx(end_l2_block + 1)
            IN IF next_block_info # <<>>
                  /\ next_block_info[1].proposal_id = last_block_info[1].proposal_id
               THEN find_proposal_end_block(end_l2_block, last_block_info[1].proposal_id,
                                            MaxForward)
               ELSE end_l2_block
       ELSE end_l2_block

\* variant: the parse loop stops at the first block that does not parse
RECURSIVE parse_range_stop_at_failure(_, _)
parse_range_stop_at_failure(l2_block_num, parse_end) ==
    IF l2_block_num > parse_end THEN <<>>
    ELSE IF parse_l2_block_anchor_tx(l2_block_num) = <<>> THEN <<>>
    ELSE parse_l2_block_anchor_tx(l2_block_num)
            \o parse_range_stop_at_failure(l2_block_num + 1, parse_end)

\* lines 1128-1137: the blocks of [parse_start, parse_end] that parse, in order
RECURSIVE parse_range(_, _)
parse_range(l2_block_num, parse_end) ==
    IF l2_block_num > parse_end THEN <<>>
    ELSE parse_l2_block_anchor_tx(l2_block_num) \o parse_range(l2_block_num + 1, parse_end)

\* lines 1156-1165
proposal_queries_of(grps) ==
    [i \in DOMAIN grps |-> <<grps[i].proposal_id, grps[i].anchor_number>>]

bond_proposal_queries_of(grps) ==
    LET HasBond(q) == q[1] > 0
    IN SelectSeq([i \in DOMAIN grps |->
                    <<grps[i].proposal_id - BondOffset, grps[i].anchor_number>>], HasBond)

SeqMin(S) == CHOOSE x \in S : \A y \in S : x <= y
SeqMax(S) == CHOOSE x \in S : \A y \in S : x >= y
Max2(a, b) == IF a >= b THEN a ELSE b

min_anchor(grps) == SeqMin({grps[i].anchor_number : i \in DOMAIN grps})
max_anchor(grps) == SeqMax({grps[i].anchor_number : i \in DOMAIN grps})

\* the get_logs calls a resolver call issued, each with the ids it was issued
\* for and whether it raised
issued_get_logs(r) ==
    [i \in DOMAIN r.get_logs |->
        [search |-> r.get_logs[i], ids |-> r.searched, failed |-> r.failed]]

\* process_l2_block_range, steps 1-3 (lines 1084-1120): the true boundaries
PassBoundaries ==
    /\ pc = "boundaries"
    /\ LET first_block_info == parse_l2_block_anchor_tx(l2_block_range[1])
       IN IF first_block_info = <<>>
          THEN pc' = "done" /\ UNCHANGED true_range
          ELSE /\ true_range' = <<true_start_block(l2_block_range[1], first_block_info),
                                  true_end_block(l2_block_range[2])>>
               /\ pc' = "parse"
    /\ UNCHANGED <<frame_vars, run>>
    /\ UNCHANGED <<resolver_vars, l2_chain, l2_block_range, anchor_infos, groups>>

\* process_l2_block_range, step 4 and grouping (lines 1122-1149)
PassParse ==
    /\ pc = "parse"
    /\ anchor_infos' = parse_range(true_range[1], true_range[2])
    /\ IF anchor_infos' = <<>>
       THEN pc' = "done" /\ UNCHANGED groups
       ELSE groups' = group_blocks_by_proposal_id(anchor_infos') /\ pc' = "batch_normal"
    /\ UNCHANGED <<frame_vars, run>>
    /\ UNCHANGED <<resolver_vars, l2_chain, l2_block_range, true_range>>

\* process_l2_block_range, lines 1168-1185: the batch query of the normal proposals
PassBatchNormal ==
    /\ pc = "batch_normal"
    /\ \E query_ok \in BOOLEAN :
          LET normal_search_start == min_anchor(groups) + 1
              normal_search_end == max_anchor(groups) + NormalSearchAhead
              r == batch_find_proposal_blocks(proposal_block_cache, proposal_queries_of(groups),
                                              normal_search_start, normal_search_end, query_ok)
          IN /\ proposal_block_cache' = r.cache
             /\ call' = CallRecord("batch", {groups[i].proposal_id : i \in DOMAIN groups},
                                   <<normal_search_start, normal_search_end>>,
                                   proposal_block_cache, r)
             /\ first_result' = RecordFirst(first_result, r.result)
             /\ run' = [run EXCEPT !.get_logs = @ \o issued_get_logs(r)]
    /\ pc' = IF bond_proposal_queries_of(groups) # <<>> THEN "batch_bond" ELSE "resolve"
    /\ UNCHANGED frame_vars
    /\ UNCHANGED <<l1_logs, l2_chain, l2_block_range, true_range, anchor_infos, groups>>

\* process_l2_block_range, lines 1187-1192: the batch query of the bond proposals
PassBatchBond ==
    /\ pc = "batch_bond"
    /\ \E query_ok \in BOOLEAN :
          LET bond_search_start == Max2(1, min_anchor(groups) - BondSearchBack)
              bond_search_end == max_anchor(groups) + NormalSearchAhead
              bond_proposal_queries == bond_proposal_queries_of(groups)
              r == batch_find_proposal_blocks(proposal_block_cache, bond_proposal_queries,
                                              bond_search_start, bond_search_end, query_ok)
          IN /\ proposal_block_cache' = r.cache
             /\ call' = CallRecord("batch",
                                   {bond_proposal_queries[i][1] : i \in DOMAIN bond_proposal_queries},
                                   <<bond_search_start, bond_search_end>>,
                                   proposal_block_cache, r)
             /\ first_result' = RecordFirst(first_result, r.result)
             /\ run' = [run EXCEPT !.get_logs = @ \o issued_get_logs(r)]
    /\ pc' = "resolve"
    /\ UNCHANGED frame_vars
    /\ UNCHANGED <<l1_logs, l2_chain, l2_block_range, true_range, anchor_infos, groups>>

\* asyncio.create_task(process_proposal_group(group, l1_inclusion_block)): the
\* coroutine has not run yet; script and tail are what the status server will
\* answer to its queries
NewTask(r, group, l1_inclusion_block) ==
    [group |-> group, l1_inclusion_block |-> l1_inclusion_block,
     pc |-> "created", retry_count |-> 0, broke |-> "none", exit |-> "none",
     script |-> r.responder.script, tail |-> r.responder.tail, log |-> <<>>]

\* variant: a group without an L1 inclusion block still takes its turn in acc_odds
resolve_group_counts_missing(r, group, l1_inclusion_block) ==
    LET acc_odds == r.acc_odds + r.block_running_ratio
        submit == acc_odds >= RatioDenominator
    IN [r EXCEPT !.next_group = @ + 1,
                 !.resolved = Append(@, l1_inclusion_block),
                 !.acc_odds = IF submit THEN acc_odds - RatioDenominator ELSE acc_odds,
                 !.running_count = IF submit /\ l1_inclusion_block # None THEN @ + 1 ELSE @,
                 !.tasks = IF submit /\ l1_inclusion_block # None
                           THEN Append(@, NewTask(r, group, l1_inclusion_block))
                           ELSE @]

\* lines 1200-1287, one iteration of the loop of step 3 once the L1 inclusion
\* block of the group is known: None skips the group; otherwise acc_odds
\* decides whether a process_proposal_group task is created
resolve_group(r, group, l1_inclusion_block) ==
    IF l1_inclusion_block = None
    THEN [r EXCEPT !.next_group = @ + 1, !.resolved = Append(@, l1_inclusion_block)]
    ELSE LET acc_odds == r.acc_odds + r.block_running_ratio
             submit == acc_odds >= RatioDenominator
         IN [r EXCEPT !.next_group = @ + 1,
                      !.resolved = Append(@, l1_inclusion_block),
                      !.acc_odds = IF submit THEN acc_odds - RatioDenominator ELSE acc_odds,
                      !.running_count = IF submit THEN @ + 1 ELSE @,
                      !.tasks = IF submit
                                THEN Append(@, NewTask(r, group, l1_inclusion_block))
                                ELSE @]

\* process_l2_block_range, lines 1200-1287: the next group of step 3; the
\* asyncio.sleep(0) of line 1283 after a create_task lets the new task run its
\* first segment before the pass goes on
PassResolveGroup ==
    /\ pc = "resolve"
    /\ run.next_group <= Len(groups)
    /\ \A t \in DOMAIN run.tasks : run.tasks[t].pc # "created"
    /\ \E query_ok \in BOOLEAN :
          LET group == groups[run.next_group]
              r == find_l1_inclusion_block(proposal_block_cache, group.proposal_id,
                                           group.anchor_number, query_ok)
              l1_inclusion_block == r.result[group.proposal_id]
          IN /\ proposal_block_cache' = r.cache
             /\ call' = CallRecord("find", {group.proposal_id},
                                   <<group.anchor_number + 1,
                                     group.anchor_number + IndividualSearchSpan>>,
                                   proposal_block_cache, r)
             /\ first_result' = RecordFirst(first_result, r.result)
             /\ run' = [resolve_group(run, group, l1_inclusion_block)
                          EXCEPT !.get_logs = @ \o issued_get_logs(r)]
    /\ UNCHANGED frame_vars
    /\ UNCHANGED <<l1_logs, l2_chain, l2_block_range, true_range, anchor_infos, groups, pc>>

\* process_l2_block_range, lines 1289-1292: every group had its turn, the pass
\* waits in asyncio.gather for the tasks it created
PassGather ==
    /\ pc = "resolve"
    /\ run.next_group > Len(groups)
    /\ \A t \in DOMAIN run.tasks : run.tasks[t].pc # "created"
    /\ pc' = "gather"
    /\ UNCHANGED <<frame_vars, run>>
    /\ UNCHANGED <<resolver_vars, l2_chain, l2_block_range, true_range, anchor_infos, groups>>

\* ------------------------------------------------ the tasks of a pass
\* process_proposal_group runs as an asyncio task. Its only suspension point
\* is the asyncio.sleep of line 992: the awaits of submit_to_raiko,
\* query_raiko_status, submit_aggregate_to_raiko and parse_l2_block_anchor_tx
\* run blocking calls and never yield to the event loop. A task therefore runs
\* in atomic segments: from its start to the first sleep, and from one sleep
\* to the next, or to its end. The pass yields at lines 1255, 1283 and 1292;
\* the steps of the pass between two of them change nothing a task reads.

\* the answers of query_raiko_status (lines 833-864): status "error" with no
\* data; status "ok" with empty data; or data that holds status registered,
\* status work_in_progress, a proof, or none of them
Responses == {"error", "empty", "registered", "work_in_progress", "proof", "unhandled"}

\* lines 971-977
proposal_data(task) ==
    [proposal_id |-> task.group.proposal_id,
     l1_inclusion_block_number |-> task.l1_inclusion_block,
     l2_block_numbers |-> task.group.l2_block_numbers]

\* variant: the pending list is cleared only when the server accepted the request
submit_aggregate_to_raiko_keep_on_failure(r, post_ok) ==
    IF r.pending_proposals = <<>> THEN r
    ELSE [r EXCEPT !.pending_proposals = IF post_ok THEN <<>> ELSE @,
                   !.aggregate_posts = Append(@, [proposals |-> r.pending_proposals,
                                                  ok |-> post_ok]),
                   !.aggregate_running_count = IF post_ok THEN @ + 1 ELSE @,
                   !.aggregate_requests = IF post_ok THEN Append(@, r.pending_proposals) ELSE @]

\* submit_aggregate_to_raiko, lines 788-831: the list is copied and cleared, the
\* copy is posted; post_ok = FALSE: the post raises or the answer is not ok
submit_aggregate_to_raiko(r, post_ok) ==
    IF r.pending_proposals = <<>> THEN r
    ELSE [r EXCEPT !.pending_proposals = <<>>,
                   !.aggregate_posts = Append(@, [proposals |-> r.pending_proposals,
                                                  ok |-> post_ok]),
                   !.aggregate_running_count = IF post_ok THEN @ + 1 ELSE @,
                   !.aggregate_requests = IF post_ok THEN Append(@, r.pending_proposals) ELSE @]

\* lines 969-985: the proposal of task t completed with a proof
complete_with_proof(r, t, post_ok) ==
    IF r.aggregate > 0
    THEN LET added == [r EXCEPT !.pending_proposals = Append(@, proposal_data(r.tasks[t]))]
         IN IF Len(added.pending_proposals) >= r.aggregate
            THEN submit_aggregate_to_raiko(added, post_ok)
            ELSE added
    ELSE r

\* variant: the counter is decremented on the normal return only
finish_task_no_finally(r, t, exit) ==
    [r EXCEPT !.tasks[t].pc = "finished", !.tasks[t].exit = exit,
              !.running_count = IF exit = "raise" THEN @ ELSE @ - 1]

\* the coroutine of task t ends, by return or by an exception; lines 1006-1010:
\* the finally clause
finish_task(r, t, exit) ==
    [r EXCEPT !.tasks[t].pc = "finished", !.tasks[t].exit = exit, !.running_count = @ - 1]

\* lines 994-1005 after the loop broke: the line written to the log file reads
\* response, which is unbound when the loop broke before the first query
end_of_loop(r, t, broke) ==
    LET ended == [r EXCEPT !.tasks[t].broke = broke]
    IN IF r.tasks[t].log = <<>> THEN finish_task(ended, t, "raise")
       ELSE finish_task(ended, t, "return")

\* variant: every error response counts, a response with data does not reset the count
count_errors_no_reset(retry_count, response) ==
    IF response = "error" THEN retry_count + 1 ELSE retry_count

\* lines 944-956: retry_count after the response
count_errors(retry_count, response) ==
    IF response = "error" THEN retry_count + 1
    ELSE IF response = "empty" THEN retry_count
    ELSE 0

\* lines 934-992, one iteration of the polling loop of task t; timed_out: the
\* clock has passed start_polling_time + timeout
poll_iteration(r, t, timed_out, post_ok) ==
    IF timed_out THEN end_of_loop(r, t, "timeout")
    ELSE LET task == r.tasks[t]
             response == IF task.script # <<>> THEN Head(task.script) ELSE task.tail
             retry_count == count_errors(task.retry_count, response)
             heard == [r EXCEPT !.tasks[t].script = IF @ = <<>> THEN @ ELSE Tail(@),
                                !.tasks[t].log = Append(@, response),
                                !.tasks[t].retry_count = retry_count]
         IN IF response = "error" /\ retry_count >= r.max_retries
            THEN end_of_loop(heard, t, "max_retries")
            ELSE IF response = "proof"
            THEN end_of_loop(complete_with_proof(heard, t, post_ok), t, "proof")
            ELSE [heard EXCEPT !.tasks[t].pc = "polling"]

\* process_proposal_group from its start to its first suspension (lines
\* 890-992): watch mode returns at once; otherwise the proposal is submitted
\* and the first iteration of the polling loop runs
TaskStart ==
    /\ pc \in {"resolve", "gather"}
    /\ \E t \in DOMAIN run.tasks :
          /\ run.tasks[t].pc = "created"
          /\ \E timed_out \in BOOLEAN, post_ok \in BOOLEAN :
                run' = IF run.watch_mode THEN finish_task(run, t, "return")
                       ELSE poll_iteration(run, t, timed_out, post_ok)
    /\ UNCHANGED <<resolver_vars, pass_vars, frame_vars>>

\* process_proposal_group from the sleep of line 992 to the next suspension
TaskPoll ==
    /\ pc \in {"resolve", "gather"}
    /\ \E t \in DOMAIN run.tasks :
          /\ run.tasks[t].pc = "polling"
          /\ \E timed_out \in BOOLEAN, post_ok \in BOOLEAN :
                run' = poll_iteration(run, t, timed_out, post_ok)
    /\ UNCHANGED <<resolver_vars, pass_vars, frame_vars>>

\* lines 1301-1314: the aggregate requests of the indices in completed have a
\* proof; they are removed and counted down
check_aggregate_status(r, completed) ==
    LET Kept(i) == i \notin completed
        kept == SelectSeq([i \in DOMAIN r.aggregate_requests |-> i], Kept)
        left == r.aggregate_running_count - Cardinality(completed)
    IN IF r.aggregate > 0 /\ r.aggregate_requests # <<>>
       THEN [r EXCEPT !.aggregate_requests = [k \in DOMAIN kept |-> r.aggregate_requests[kept[k]]],
                      !.aggregate_running_count = IF left < 0 THEN 0 ELSE left]
       ELSE r

\* process_l2_block_range, lines 1292-1316: gather returns when every task has
\* ended; the remaining pending proposals are submitted and the status of the
\* aggregate requests is checked
PassFinish ==
    /\ pc = "gather"
    /\ \A t \in DOMAIN run.tasks : run.tasks[t].pc = "finished"
    /\ \E post_ok \in BOOLEAN :
          LET flushed == IF run.aggregate > 0 /\ run.pending_proposals # <<>>
                         THEN submit_aggregate_to_raiko(run, post_ok)
                         ELSE run
          IN \E completed \in SUBSET DOMAIN flushed.aggregate_requests :
                run' = check_aggregate_status(flushed, completed)
    /\ pc' = "done"
    /\ UNCHANGED frame_vars
    /\ UNCHANGED <<resolver_vars, l2_chain, l2_block_range, true_range, anchor_infos, groups>>

\* block_running_ratio of a pass, in units of 1 / RatioDenominator: 0.5 and 1.0
RunningRatios == {1, RatioDenominator}

InitPass ==
    /\ l1_logs \in PassL1Chains
    /\ proposal_block_cache = EmptyDict
    /\ call = NoCall
    /\ first_result = EmptyDict
    /\ l2_chain \in L2Chains
    /\ l2_block_range \in L2Ranges
    /\ true_range = <<0, 0>>
    /\ anchor_infos = <<>>
    /\ groups = <<>>
    /\ scan = NoScan
    /\ \E block_running_ratio \in RunningRatios :
          run = [NoRun EXCEPT !.block_running_ratio = block_running_ratio,
                              !.watch_mode = TRUE]
    /\ dec = NoDecode
    /\ pc = "boundaries"

NextPass ==
    \/ PassBoundaries
    \/ PassParse
    \/ PassBatchNormal
    \/ PassBatchBond
    \/ PassResolveGroup
    \/ PassGather
    \/ TaskStart
    \/ PassFinish

\* process_l2_block_range in watch mode: a task returns in its first segment
SpecPass == InitPass /\ [][NextPass]_vars

\* bounds of the runs with tasks
MaxTasks == 3
MaxRetries == 2
MaxAggregate == 2

\* the L2 chain of a run with tasks: blocks 0..n-1 alternate between the two
\* proposals, so that every block is a group of its own
TaskChain(n) ==
    [b \in 0..(n - 1) |->
        <<[proposal_id |-> IF b % 2 = 0 THEN 1 + BondOffset ELSE 1, anchor_number |-> 1]>>]

\* the status servers of the runs with tasks
TaskResponders ==
    {[script |-> script, tail |-> tail] :
       script \in {<<>>, <<"registered">>, <<"error", "work_in_progress">>, <<"empty", "error">>},
       tail \in {"proof", "error"}}

\* the L1 chains of the runs with tasks: both proposals are proposed, the first
\* inside or before the window of the normal batch query
TaskL1Chains ==
    {<<[blockNumber |-> b, id |-> 1], [blockNumber |-> b + 1, id |-> 1 + BondOffset]>> :
       b \in {1, 2}}

\* a pass over n single-block proposals with its tasks
InitTasks ==
    /\ l1_logs \in TaskL1Chains
    /\ proposal_block_cache = EmptyDict
    /\ call = NoCall
    /\ first_result = EmptyDict
    /\ \E n \in 1..MaxTasks :
          /\ l2_chain = TaskChain(n)
          /\ l2_block_range = <<0, n - 1>>
    /\ true_range = <<0, 0>>
    /\ anchor_infos = <<>>
    /\ groups = <<>>
    /\ scan = NoScan
    /\ \E max_retries \in 1..MaxRetries, watch_mode \in BOOLEAN, aggregate \in 0..MaxAggregate,
          responder \in TaskResponders :
          run = [NoRun EXCEPT !.max_retries = max_retries, !.watch_mode = watch_mode,
                              !.aggregate = aggregate, !.responder = responder]
    /\ dec = NoDecode
    /\ pc = "boundaries"

NextTasks ==
    \/ PassBoundaries
    \/ PassParse
    \/ PassBatchNormal
    \/ PassBatchBond
    \/ PassResolveGroup
    \/ PassGather
    \/ TaskStart
    \/ TaskPoll
    \/ PassFinish

\* process_l2_block_range with the tasks it creates, interleaved at their
\* suspension points
SpecTasks == InitTasks /\ [][NextTasks]_vars

\* bound of the scripts of the status server
MaxScript == 2

\* a status server that answers any script of at most MaxScript responses and
\* then returns a proof for ever, or an error for ever
PollResponders ==
    {[script |-> script, tail |-> tail] :
       script \in SeqsUpTo(Responses, MaxScript), tail \in {"proof", "error"}}

\* a pass over one proposal, so that one task polls the status server
InitPoll ==
    /\ l1_logs = <<[blockNumber |-> 2, id |-> 1], [blockNumber |-> 3, id |-> 1 + BondOffset]>>
    /\ proposal_block_cache = EmptyDict
    /\ call = NoCall
    /\ first_result = EmptyDict
    /\ l2_chain = TaskChain(1)
    /\ l2_block_range = <<0, 0>>
    /\ true_range = <<0, 0>>
    /\ anchor_infos = <<>>
    /\ groups = <<>>
    /\ scan = NoScan
    /\ \E max_retries \in 1..MaxRetries, responder \in PollResponders :
          run = [NoRun EXCEPT !.max_retries = max_retries, !.responder = responder]
    /\ dec = NoDecode
    /\ pc = "boundaries"

\* the event loop runs a task that is ready: a new task at the next yield of
\* the pass, a polling task when its sleep is over
SpecPoll == InitPoll /\ [][NextTasks]_vars /\ WF_vars(TaskStart \/ TaskPoll)

\* steps 1-3 of the pass alone (lines 1084-1120), also on chains whose runs are
\* longer than the default cap of the forward scan
expand_boundaries(range) ==
    <<true_start_block(range[1], parse_l2_block_anchor_tx(range[1])),
      true_end_block(range[2])>>

InitBoundary ==
    /\ l1_logs = <<>>
    /\ proposal_block_cache = EmptyDict
    /\ call = NoCall
    /\ first_result = EmptyDict
    /\ l2_chain \in L2Chains \cup LongL2Chains
    /\ l2_block_range \in L2Ranges
    /\ true_range = <<0, 0>>
    /\ anchor_infos = <<>>
    /\ groups = <<>>
    /\ scan = NoScan
    /\ run = NoRun
    /\ dec = NoDecode
    /\ pc = "boundaries"

NextBoundary == PassBoundaries

SpecBoundary == InitBoundary /\ [][NextBoundary]_vars

\* -------------------------------------------------------- the boundary scans
\* the two scans of lines 1012-1069, one loop iteration (one block fetch) per step
\* the chains a scan runs on
ScanChains ==
    {[n \in L2Blocks |->
         IF ids[n] = None THEN <<>> ELSE <<[proposal_id |-> ids[n], anchor_number |-> 1]>>] :
       ids \in [L2Blocks -> PassIds \cup {None}]}
    \cup {chain \in LongL2Chains : chain[0][1].anchor_number = 1}

\* max_forward arguments: small caps and the default of line 1040
MaxForwardArgs == (0..MaxCap) \cup {MaxForward}

\* lines 1017-1018: the frame of find_proposal_start_block on entry
StartFrame(start_block, proposal_id) ==
    [op |-> "start", block |-> start_block, proposal_id |-> proposal_id, max_forward |-> 0,
     current_block |-> start_block - 1, last_valid_block |-> start_block,
     checked |-> 0, fetches |-> 0, pc |-> "loop"]

\* lines 1046-1048: the frame of find_proposal_end_block on entry
EndFrame(end_block, proposal_id, max_forward) ==
    [op |-> "end", block |-> end_block, proposal_id |-> proposal_id,
     max_forward |-> max_forward,
     current_block |-> end_block + 1, last_valid_block |-> end_block,
     checked |-> 0, fetches |-> 0, pc |-> "loop"]

\* line 1020: while current_block >= 0
start_loop_condition(s) == s.current_block >= 0

\* variant: the cap is inclusive
end_loop_condition_inclusive(s) == s.checked <= s.max_forward

\* line 1050: while checked < max_forward
end_loop_condition(s) == s.checked < s.max_forward

\* variant: any block that decodes extends the run
find_start_step_any_id(s) ==
    LET anchor_info == parse_l2_block_anchor_tx(s.current_block)
    IN IF anchor_info = <<>>
       THEN [s EXCEPT !.fetches = @ + 1, !.pc = "returned"]
       ELSE [s EXCEPT !.fetches = @ + 1, !.last_valid_block = s.current_block,
                      !.current_block = @ - 1]

\* lines 1021-1036: one iteration of the backward loop
find_start_step(s) ==
    LET anchor_info == parse_l2_block_anchor_tx(s.current_block)
    IN IF anchor_info = <<>>
       THEN [s EXCEPT !.fetches = @ + 1, !.pc = "returned"]
       ELSE IF anchor_info[1].proposal_id = s.proposal_id
            THEN [s EXCEPT !.fetches = @ + 1, !.last_valid_block = s.current_block,
                           !.current_block = @ - 1]
            ELSE [s EXCEPT !.fetches = @ + 1, !.pc = "returned"]

\* variant: a matching block is not counted against the cap
find_end_step_uncounted(s) ==
    LET anchor_info == parse_l2_block_anchor_tx(s.current_block)
    IN IF anchor_info = <<>>
       THEN [s EXCEPT !.fetches = @ + 1, !.pc = "returned"]
       ELSE IF anchor_info[1].proposal_id = s.proposal_id
            THEN [s EXCEPT !.fetches = @ + 1, !.last_valid_block = s.current_block,
                           !.current_block = @ + 1]
            ELSE [s EXCEPT !.fetches = @ + 1, !.pc = "returned"]

\* lines 1051-1067: one iteration of the forward loop
find_end_step(s) ==
    LET anchor_info == parse_l2_block_anchor_tx(s.current_block)
    IN IF anchor_info = <<>>
       THEN [s EXCEPT !.fetches = @ + 1, !.pc = "returned"]
       ELSE IF anchor_info[1].proposal_id = s.proposal_id
            THEN [s EXCEPT !.fetches = @ + 1, !.last_valid_block = s.current_block,
                           !.current_block = @ + 1, !.checked = @ + 1]
            ELSE [s EXCEPT !.fetches = @ + 1, !.pc = "returned"]

\* a caller invokes find_proposal_start_block(start_block, proposal_id)
CallFindStart ==
    /\ scan.pc = "idle"
    /\ \E start_block \in L2Blocks, proposal_id \in PassIds :
          scan' = StartFrame(start_block, proposal_id)
    /\ UNCHANGED <<resolver_vars, pass_vars, dec, run>>

\* a caller invokes find_proposal_end_block(end_block, proposal_id, max_forward)
CallFindEnd ==
    /\ scan.pc = "idle"
    /\ \E end_block \in L2Blocks, proposal_id \in PassIds, max_forward \in MaxForwardArgs :
          scan' = EndFrame(end_block, proposal_id, max_forward)
    /\ UNCHANGED <<resolver_vars, pass_vars, dec, run>>

\* the backward loop fetches one block
StartStep ==
    /\ scan.op = "start" /\ scan.pc = "loop"
    /\ start_loop_condition(scan)
    /\ scan' = find_start_step(scan)
    /\ UNCHANGED <<resolver_vars, pass_vars, dec, run>>

\* the forward loop fetches one block
EndStep ==
    /\ scan.op = "end" /\ scan.pc = "loop"
    /\ end_loop_condition(scan)
    /\ scan' = find_end_step(scan)
    /\ UNCHANGED <<resolver_vars, pass_vars, dec, run>>

\* lines 1038 and 1069: the loop condition fails, return last_valid_block
ScanReturn ==
    /\ scan.pc = "loop"
    /\ \/ scan.op = "start" /\ ~start_loop_condition(scan)
       \/ scan.op = "end" /\ ~end_loop_condition(scan)
    /\ scan' = [scan EXCEPT !.pc = "returned"]
    /\ UNCHANGED <<resolver_vars, pass_vars, dec, run>>

InitScan ==
    /\ l1_logs = <<>>
    /\ proposal_block_cache = EmptyDict
    /\ call = NoCall
    /\ first_result = EmptyDict
    /\ l2_chain \in ScanChains
    /\ l2_block_range = <<0, 0>>
    /\ true_range = <<0, 0>>
    /\ anchor_infos = <<>>
    /\ groups = <<>>
    /\ scan = NoScan
    /\ run = NoRun
    /\ dec = NoDecode
    /\ pc = "scan"

NextScan == CallFindStart \/ CallFindEnd \/ StartStep \/ EndStep \/ ScanReturn

\* the event loop resumes a scan whose fetch has completed
SpecScan == InitScan /\ [][NextScan]_vars /\ WF_vars(NextScan)

\* ------------------------------------------------------ the primitive readers
\* raise ValueError(message)
Raise(message) == [outcome |-> "raise", error |-> [type |-> "ValueError", message |-> message]]

\* return value, new_pos
ReturnValue(value, new_pos) == [outcome |-> "return", value |-> value, new_pos |-> new_pos]

\* data[pos:pos+n]
slice(data, pos, n) == SubSeq(data, pos + 1, IF pos + n <= Len(data) THEN pos + n ELSE Len(data))

\* variant: the least significant byte comes first
RECURSIVE struct_unpack_int_little_endian(_, _)
struct_unpack_int_little_endian(bytes, acc) ==
    IF bytes = <<>> THEN acc
    ELSE struct_unpack_int_little_endian(SubSeq(bytes, 1, Len(bytes) - 1),
                                         acc * 256 + bytes[Len(bytes)])

\* struct.unpack of a big-endian unsigned integer of at most 4 bytes
RECURSIVE struct_unpack_int(_, _)
struct_unpack_int(bytes, acc) ==
    IF bytes = <<>> THEN acc
    ELSE struct_unpack_int(Tail(bytes), acc * 256 + Head(bytes))

\* a big-endian unsigned integer of more than 4 bytes (struct.unpack('>Q', ..),
\* int.from_bytes(.., byteorder="big")): the numeral of its value
RECURSIVE big_endian_numeral(_)
big_endian_numeral(bytes) ==
    IF bytes = <<>> THEN <<>>
    ELSE IF Head(bytes) = 0 THEN big_endian_numeral(Tail(bytes))
    ELSE bytes

\* bytes.hex(): two lowercase digits per byte
HexDigits == <<"0", "1", "2", "3", "4", "5", "6", "7", "8", "9", "a", "b", "c", "d", "e", "f">>

\* variant: uppercase digits
RECURSIVE hex_upper(_)
hex_upper(bytes) ==
    IF bytes = <<>> THEN <<>>
    ELSE LET UpperDigits == <<"0", "1", "2", "3", "4", "5", "6", "7", "8", "9",
                              "A", "B", "C", "D", "E", "F">>
         IN <<UpperDigits[(Head(bytes) \div 16) + 1], UpperDigits[(Head(bytes) % 16) + 1]>>
            \o hex_upper(Tail(bytes))

RECURSIVE hex(_)
hex(bytes) ==
    IF bytes = <<>> THEN <<>>
    ELSE <<HexDigits[(Head(bytes) \div 16) + 1], HexDigits[(Head(bytes) % 16) + 1]>>
         \o hex(Tail(bytes))

\* variant: the read fails when the field ends exactly at the end of the buffer
unpack_uint24_strict(data, pos) ==
    IF pos + 3 >= Len(data) THEN Raise("Not enough data to read 3-byte uint24")
    ELSE ReturnValue(struct_unpack_int(<<0>> \o slice(data, pos, 3), 0), pos + 3)

\* unpack_uint24, lines 146-154
unpack_uint24(data, pos) ==
    IF pos + 3 > Len(data) THEN Raise("Not enough data to read 3-byte uint24")
    ELSE ReturnValue(struct_unpack_int(<<0>> \o slice(data, pos, 3), 0), pos + 3)

\* unpack_uint48, lines 156-164
unpack_uint48(data, pos) ==
    IF pos + 6 > Len(data) THEN Raise("Not enough data to read 6-byte uint48")
    ELSE ReturnValue(big_endian_numeral(<<0, 0>> \o slice(data, pos, 6)), pos + 6)

\* variant: the address is rendered without the 0x prefix
unpack_address_no_prefix(data, pos) ==
    IF pos + 20 > Len(data) THEN Raise("Not enough data to read 20-byte address")
    ELSE ReturnValue(hex(slice(data, pos, 20)), pos + 20)

\* unpack_address, lines 166-174
unpack_address(data, pos) ==
    IF pos + 20 > Len(data) THEN Raise("Not enough data to read 20-byte address")
    ELSE ReturnValue(<<"0", "x">> \o hex(slice(data, pos, 20)), pos + 20)

\* unpack_hash, lines 176-184
unpack_hash(data, pos) ==
    IF pos + 32 > Len(data) THEN Raise("Not enough data to read 32-byte hash")
    ELSE ReturnValue(<<"0", "x">> \o hex(slice(data, pos, 32)), pos + 32)

\* unpack_uint8, lines 186-193
unpack_uint8(data, pos) ==
    IF pos + 1 > Len(data) THEN Raise("Not enough data to read 1-byte uint8")
    ELSE ReturnValue(data[pos + 1], pos + 1)

\* unpack_uint16, lines 195-202
unpack_uint16(data, pos) ==
    IF pos + 2 > Len(data) THEN Raise("Not enough data to read 2-byte uint16")
    ELSE ReturnValue(struct_unpack_int(slice(data, pos, 2), 0), pos + 2)

\* the buffers handed to a reader: every length up to MaxReadLen, filled with
\* zero bytes or with a pattern that uses every hex digit
ReadBuffers ==
    {[i \in 1..n |-> (fill * (i * 37 + 134)) % 256] : n \in 0..MaxReadLen, fill \in 0..MaxFill}

\* the call frame of a reader called on dec.data at cursor pos
ReadCall(op, pos, result) ==
    [op |-> op, data |-> dec.data, pos |-> pos, fields |-> <<>>, result |-> result]

\* cursor positions: every position of the buffer, its end and one beyond
Cursors == 0..(Len(dec.data) + 1)

CallUnpackUint8 ==
    /\ dec.op = "none"
    /\ \E pos \in Cursors : dec' = ReadCall("unpack_uint8", pos, unpack_uint8(dec.data, pos))
    /\ UNCHANGED <<resolver_vars, pass_vars, scan, run>>

CallUnpackUint16 ==
    /\ dec.op = "none"
    /\ \E pos \in Cursors : dec' = ReadCall("unpack_uint16", pos, unpack_uint16(dec.data, pos))
    /\ UNCHANGED <<resolver_vars, pass_vars, scan, run>>

CallUnpackUint24 ==
    /\ dec.op = "none"
    /\ \E pos \in Cursors : dec' = ReadCall("unpack_uint24", pos, unpack_uint24(dec.data, pos))
    /\ UNCHANGED <<resolver_vars, pass_vars, scan, run>>

CallUnpackUint48 ==
    /\ dec.op = "none"
    /\ \E pos \in Cursors : dec' = ReadCall("unpack_uint48", pos, unpack_uint48(dec.data, pos))
    /\ UNCHANGED <<resolver_vars, pass_vars, scan, run>>

CallUnpackAddress ==
    /\ dec.op = "none"
    /\ \E pos \in Cursors : dec' = ReadCall("unpack_address", pos, unpack_address(dec.data, pos))
    /\ UNCHANGED <<resolver_vars, pass_vars, scan, run>>

CallUnpackHash ==
    /\ dec.op = "none"
    /\ \E pos \in Cursors : dec' = ReadCall("unpack_hash", pos, unpack_hash(dec.data, pos))
    /\ UNCHANGED <<resolver_vars, pass_vars, scan, run>>

InitRead ==
    /\ l1_logs = <<>>
    /\ proposal_block_cache = EmptyDict
    /\ call = NoCall
    /\ first_result = EmptyDict
    /\ l2_chain = <<>>
    /\ l2_block_range = <<0, 0>>
    /\ true_range = <<0, 0>>
    /\ anchor_infos = <<>>
    /\ groups = <<>>
    /\ scan = NoScan
    /\ run = NoRun
    /\ \E data \in ReadBuffers : dec = [NoDecode EXCEPT !.data = data]
    /\ pc = "read"

NextRead ==
    \/ CallUnpackUint8 \/ CallUnpackUint16 \/ CallUnpackUint24
    \/ CallUnpackUint48 \/ CallUnpackAddress \/ CallUnpackHash

SpecRead == InitRead /\ [][NextRead]_vars

\* ------------------------------------------------------- the event decoder
\* except Exception as e: raise ValueError(f"Failed to decode Shasta event data: {e}"), lines 317-318
Reraise(r) == Raise("Failed to decode Shasta event data: " \o r.error.message)

\* lines 270-273: the blob hashes of one source
RECURSIVE decode_blob_hashes(_, _, _, _)
decode_blob_hashes(data, ptr, remaining, blob_hashes) ==
    IF remaining = 0 THEN ReturnValue(blob_hashes, ptr)
    ELSE LET blob_hash == unpack_hash(data, ptr)
         IN IF blob_hash.outcome = "raise" THEN blob_hash
            ELSE decode_blob_hashes(data, blob_hash.new_pos, remaining - 1,
                                    Append(blob_hashes, blob_hash.value))

DerivationSource(is_forced_inclusion, blob_hashes, offset, timestamp) ==
    [is_forced_inclusion |-> is_forced_inclusion,
     blob_slice |-> [blob_hashes |-> blob_hashes, offset |-> offset, timestamp |-> timestamp]]

\* lines 263-287: one source
decode_source(data, ptr) ==
    LET is_forced_inclusion_u8 == unpack_uint8(data, ptr)
    IN IF is_forced_inclusion_u8.outcome = "raise" THEN is_forced_inclusion_u8 ELSE
    LET blob_hashes_length == unpack_uint16(data, is_forced_inclusion_u8.new_pos)
    IN IF blob_hashes_length.outcome = "raise" THEN blob_hashes_length ELSE
    LET blob_hashes == decode_blob_hashes(data, blob_hashes_length.new_pos,
                                          blob_hashes_length.value, <<>>)
    IN IF blob_hashes.outcome = "raise" THEN blob_hashes ELSE
    LET offset == unpack_uint24(data, blob_hashes.new_pos)
    IN IF offset.outcome = "raise" THEN offset ELSE
    LET blob_timestamp == unpack_uint48(data, offset.new_pos)
    IN IF blob_timestamp.outcome = "raise" THEN blob_timestamp ELSE
    ReturnValue(DerivationSource(is_forced_inclusion_u8.value # 0, blob_hashes.value,
                                 offset.value, blob_timestamp.value),
                blob_timestamp.new_pos)

\* lines 261-287: for _ in range(sources_length)
RECURSIVE decode_sources(_, _, _, _)
decode_sources(data, ptr, remaining, sources) ==
    IF remaining = 0 THEN ReturnValue(sources, ptr)
    ELSE LET source == decode_source(data, ptr)
         IN IF source.outcome = "raise" THEN source
            ELSE decode_sources(data, source.new_pos, remaining - 1,
                                Append(sources, source.value))

\* lines 296-303
ShastaProposal(id, timestamp, end_of_submission_window_timestamp, proposer, parent_hash, derivation_hash) ==
    [id |-> id, timestamp |-> timestamp,
     end_of_submission_window_timestamp |-> end_of_submission_window_timestamp,
     proposer |-> proposer, parent_proposal_hash |-> parent_hash,
     derivation_hash |-> derivation_hash]

\* lines 305-310
ShastaDerivation(origin_block_number, origin_block_hash, basefee_sharing_pctg, sources) ==
    [origin_block_number |-> origin_block_number, origin_block_hash |-> origin_block_hash,
     basefee_sharing_pctg |-> basefee_sharing_pctg, sources |-> sources]

\* lines 312-315
ShastaEventData(proposal, derivation) == [proposal |-> proposal, derivation |-> derivation]

\* the try block of decode_event_data, lines 244-315: the record and the final ptr
decode_payload(data) ==
    LET proposal_id == unpack_uint48(data, 0)
    IN IF proposal_id.outcome = "raise" THEN proposal_id ELSE
    LET proposer == unpack_address(data, proposal_id.new_pos)
    IN IF proposer.outcome = "raise" THEN proposer ELSE
    LET timestamp == unpack_uint48(data, proposer.new_pos)
    IN IF timestamp.outcome = "raise" THEN timestamp ELSE
    LET end_of_submission_window_timestamp == unpack_uint48(data, timestamp.new_pos)
    IN IF end_of_submission_window_timestamp.outcome = "raise"
       THEN end_of_submission_window_timestamp ELSE
    LET parent_proposal_hash == unpack_hash(data, end_of_submission_window_timestamp.new_pos)
    IN IF parent_proposal_hash.outcome = "raise" THEN parent_proposal_hash ELSE
    LET origin_block_number == unpack_uint48(data, parent_proposal_hash.new_pos)
    IN IF origin_block_number.outcome = "raise" THEN origin_block_number ELSE
    LET origin_block_hash == unpack_hash(data, origin_block_number.new_pos)
    IN IF origin_block_hash.outcome = "raise" THEN origin_block_hash ELSE
    LET basefee_sharing_pctg == unpack_uint8(data, origin_block_hash.new_pos)
    IN IF basefee_sharing_pctg.outcome = "raise" THEN basefee_sharing_pctg ELSE
    LET sources_length == unpack_uint16(data, basefee_sharing_pctg.new_pos)
    IN IF sources_length.outcome = "raise" THEN sources_length ELSE
    LET sources == decode_sources(data, sources_length.new_pos, sources_length.value, <<>>)
    IN IF sources.outcome = "raise" THEN sources ELSE
    LET derivation_hash == unpack_hash(data, sources.new_pos)
    IN IF derivation_hash.outcome = "raise" THEN derivation_hash ELSE
    ReturnValue(
              ShastaEventData(
                   ShastaProposal(proposal_id.value, timestamp.value,
                                  end_of_submission_window_timestamp.value, proposer.value,
                                  parent_proposal_hash.value, derivation_hash.value),
                   ShastaDerivation(origin_block_number.value, origin_block_hash.value,
                                    basefee_sharing_pctg.value, sources.value)),
              derivation_hash.new_pos)

\* variant: the payload must end where the last field ends
decode_event_data_whole_buffer(data) ==
    LET decoded == decode_payload(data)
    IN IF decoded.outcome = "raise" THEN Reraise(decoded)
       ELSE IF decoded.new_pos # Len(data) THEN Reraise(Raise("Trailing data"))
       ELSE [outcome |-> "return", value |-> decoded.value]

\* variant: the sources decoded before a failing read are returned
decode_event_data_partial(data) ==
    LET decoded == decode_payload(data)
    IN IF decoded.outcome = "raise"
       THEN [outcome |-> "return", value |-> ShastaEventData(<<>>, <<>>)]
       ELSE [outcome |-> "return", value |-> decoded.value]

\* decode_event_data, lines 233-318: the record on success; every exception of
\* the try block is raised again as ValueError
decode_event_data(data) ==
    LET decoded == decode_payload(data)
    IN IF decoded.outcome = "raise" THEN Reraise(decoded)
       ELSE [outcome |-> "return", value |-> decoded.value]

\* variant: the id is given only for buffers of at least 7 bytes
extract_batch_id_needs_seven(data) ==
    IF Len(data) < 7 THEN [outcome |-> "return", value |-> <<>>]
    ELSE [outcome |-> "return", value |-> <<big_endian_numeral(slice(data, 0, 6))>>]

\* variant: the id is read with the least significant byte first
extract_batch_id_little_endian(data) ==
    IF Len(data) < 6 THEN [outcome |-> "return", value |-> <<>>]
    ELSE [outcome |-> "return",
          value |-> <<big_endian_numeral([i \in 1..6 |-> slice(data, 0, 6)[7 - i]])>>]

\* extract_batch_id, lines 355-367: an Optional[int]
extract_batch_id(data) ==
    IF Len(data) < 6 THEN [outcome |-> "return", value |-> <<>>]
    ELSE [outcome |-> "return", value |-> <<big_endian_numeral(slice(data, 0, 6))>>]

\* the event payloads handed to the decoder.  Variant 0 is the payload whose
\* id is 1 and whose other fields are zero; in the other variants every field
\* has its own byte pattern
PatternByte(variant, field, i) == (variant * 53 + field * 29 + i * 7) % 256

FieldBytes(variant, field, n) ==
    [i \in 1..n |-> IF variant = 0 THEN 0 ELSE PatternByte(variant, field, i)]

\* a uint48 value: 3 digits in the odd variants, 6 digits in the even ones
FieldNumeral(variant, field) ==
    IF variant = 0 THEN <<>>
    ELSE [i \in 1..(IF variant % 2 = 1 THEN 3 ELSE 6) |->
             1 + (PatternByte(variant, field, i) % 255)]

\* the field values of a payload; blobs[j] is the number of blob hashes of source j
EventFields(variant, blobs) ==
    [id |-> IF variant = 0 THEN <<1>> ELSE FieldNumeral(variant, 1),
     proposer |-> FieldBytes(variant, 2, 20),
     timestamp |-> FieldNumeral(variant, 3),
     end_of_submission_window_timestamp |-> FieldNumeral(variant, 4),
     parent_proposal_hash |-> FieldBytes(variant, 5, 32),
     origin_block_number |-> FieldNumeral(variant, 6),
     origin_block_hash |-> FieldBytes(variant, 7, 32),
     basefee_sharing_pctg |-> IF variant = 0 THEN 0 ELSE PatternByte(variant, 8, 1),
     sources |-> [j \in DOMAIN blobs |->
                    [flag |-> (variant + j) % 3,
                     blob_hashes |-> [h \in 1..blobs[j] |->
                                         FieldBytes(variant, 10 + 4 * j + h, 32)],
                     offset |-> PatternByte(variant, 30 + j, 1) * 65536
                                + PatternByte(variant, 30 + j, 2) * 256
                                + PatternByte(variant, 30 + j, 3),
                     timestamp |-> FieldNumeral(variant, 40 + j)]],
     derivation_hash |-> FieldBytes(variant, 9, 32)]

\* the n-byte big-endian form of a numeral
pad_numeral(numeral, n) == [i \in 1..(n - Len(numeral)) |-> 0] \o numeral

encode_uint16(value) == <<value \div 256, value % 256>>

encode_uint24(value) == <<value \div 65536, (value \div 256) % 256, value % 256>>

RECURSIVE Concat(_)
Concat(seqs) == IF seqs = <<>> THEN <<>> ELSE Head(seqs) \o Concat(Tail(seqs))

\* the layout decode_event_data reads (lines 247-290)
encode_source(source) ==
    <<source.flag>> \o encode_uint16(Len(source.blob_hashes)) \o Concat(source.blob_hashes)
    \o encode_uint24(source.offset) \o pad_numeral(source.timestamp, 6)

encode_event_data(fields) ==
    pad_numeral(fields.id, 6) \o fields.proposer \o pad_numeral(fields.timestamp, 6)
    \o pad_numeral(fields.end_of_submission_window_timestamp, 6)
    \o fields.parent_proposal_hash
    \o pad_numeral(fields.origin_block_number, 6) \o fields.origin_block_hash
    \o <<fields.basefee_sharing_pctg>> \o encode_uint16(Len(fields.sources))
    \o Concat([j \in DOMAIN fields.sources |-> encode_source(fields.sources[j])])
    \o fields.derivation_hash

\* lengths a payload is cut to: short heads, and up to MaxTrunc bytes off its end
CutLengths(payload) == {0, 5, 6, 32, 111, 114} \cup ((Len(payload) - MaxTrunc)..Len(payload))

\* bytes that follow a payload in a buffer: none, or up to MaxTail bytes
TrailingBytes == {[i \in 1..n |-> (i * 91) % 256] : n \in 0..MaxTail}

\* the call frame of a decoder entry point called on dec.data
DecodeCall(op, result) == [dec EXCEPT !.op = op, !.result = result]

\* a caller invokes decode_event_data(data)
CallDecodeEventData ==
    /\ dec.op = "none"
    /\ dec' = DecodeCall("decode_event_data", decode_event_data(dec.data))
    /\ UNCHANGED <<resolver_vars, pass_vars, scan, run>>

\* a caller invokes extract_batch_id(data)
CallExtractBatchId ==
    /\ dec.op = "none"
    /\ dec' = DecodeCall("extract_batch_id", extract_batch_id(dec.data))
    /\ UNCHANGED <<resolver_vars, pass_vars, scan, run>>

InitDecode ==
    /\ l1_logs = <<>>
    /\ proposal_block_cache = EmptyDict
    /\ call = NoCall
    /\ first_result = EmptyDict
    /\ l2_chain = <<>>
    /\ l2_block_range = <<0, 0>>
    /\ true_range = <<0, 0>>
    /\ anchor_infos = <<>>
    /\ groups = <<>>
    /\ scan = NoScan
    /\ run = NoRun
    /\ \E variant \in 0..MaxVariant, n \in 0..MaxSources :
          \E blobs \in [1..n -> 0..MaxBlobs] :
             LET fields == EventFields(variant, blobs)
                 payload == encode_event_data(fields)
             IN \/ \E cut \in CutLengths(payload) :
                      dec = [NoDecode EXCEPT !.fields = <<fields>>,
                                             !.data = SubSeq(payload, 1, cut)]
                \/ \E trailing \in TrailingBytes :
                      dec = [NoDecode EXCEPT !.fields = <<fields>>,
                                             !.data = payload \o trailing]
    /\ pc = "decode"

\* ------------------------------------------------------- the L2 block parser
\* The strings handed to bytes.fromhex are hex strings of an RPC answer: they
\* hold no whitespace.

UpperHexDigits == <<"0", "1", "2", "3", "4", "5", "6", "7", "8", "9", "A", "B", "C", "D", "E", "F">>

\* the value of the hex digit c, None when c is no hex digit
HexDigitValues ==
    [c \in {HexDigits[v] : v \in 1..16} \cup {UpperHexDigits[v] : v \in 1..16} |->
        IF \E v \in 1..16 : HexDigits[v] = c THEN (CHOOSE v \in 1..16 : HexDigits[v] = c) - 1
        ELSE (CHOOSE v \in 1..16 : UpperHexDigits[v] = c) - 1]

hex_digit_value(c) == IF c \in DOMAIN HexDigitValues THEN HexDigitValues[c] ELSE None

\* bytes.fromhex(str): one byte per pair of digits of either case; ValueError
\* at the first character that is no hex digit, or at the end of an odd string
bytes_fromhex(str) ==
    LET bad == {i \in 1..Len(str) : hex_digit_value(str[i]) = None}
        position == IF bad # {} THEN (CHOOSE i \in bad : \A j \in bad : i <= j) - 1
                    ELSE Len(str)
    IN IF bad # {} \/ Len(str) % 2 = 1
       THEN [outcome |-> "raise",
             error |-> [type |-> "ValueError",
                        message |-> "non-hexadecimal number found in fromhex() arg at position",
                        position |-> position]]
       ELSE [outcome |-> "return",
             value |-> [i \in 1..(Len(str) \div 2) |->
                           16 * hex_digit_value(str[2 * i - 1]) + hex_digit_value(str[2 * i])]]

\* if s.startswith("0x"): s = s[2:]
strip_0x(str) ==
    IF Len(str) >= 2 /\ str[1] = "0" /\ str[2] = "x" THEN SubSeq(str, 3, Len(str)) ELSE str

\* variant: the id is read from bytes 0..5
extract_proposal_id_from_byte_zero(extradata) ==
    LET extradata_bytes == bytes_fromhex(strip_0x(extradata))
    IN IF extradata_bytes.outcome = "raise" THEN <<>>
       ELSE IF Len(extradata_bytes.value) < 7 THEN <<>>
       ELSE <<big_endian_numeral(SubSeq(extradata_bytes.value, 1, 6))>>

\* extract_proposal_id_from_extradata: Optional[int], None for every failure
extract_proposal_id_from_extradata(extradata) ==
    LET extradata_bytes == bytes_fromhex(strip_0x(extradata))
    IN IF extradata_bytes.outcome = "raise" THEN <<>>
       ELSE IF Len(extradata_bytes.value) < 7 THEN <<>>
       ELSE <<big_endian_numeral(SubSeq(extradata_bytes.value, 2, 7))>>

\* the selector of anchorV4 in the anchor ABI, the selector of another function
\* of that ABI, and a selector of no function of it
AnchorSelector == <<16, 32, 48, 64>>
OtherSelector == <<17, 34, 51, 68>>
UnknownSelector == <<222, 173, 190, 239>>

\* self.l2_contract.decode_function_input(tx_input) of a contract built from
\* abi ("anchor_abi" holds anchorV4, "event_abi" holds no function matching):
\* the function is found by the 4-byte selector, the Checkpoint tuple is three
\* static words and the uint48 word must be zero above its low 6 bytes
decode_function_input(abi, tx_input) ==
    LET data == bytes_fromhex(strip_0x(tx_input))
    IN IF data.outcome = "raise" THEN data
       ELSE LET input_bytes == data.value
                selector == slice(input_bytes, 0, 4)
            IN IF abi = "anchor_abi" /\ selector = OtherSelector
               THEN [outcome |-> "return", fn_name |-> "other", func_params |-> <<>>]
               ELSE IF abi # "anchor_abi" \/ selector # AnchorSelector
               THEN Raise("Could not find any function with matching selector")
               ELSE IF Len(input_bytes) < 4 + 32 * 3
               THEN Raise("InsufficientDataBytes")
               ELSE IF \E i \in 5..30 : input_bytes[i] # 0
               THEN Raise("NonEmptyPaddingBytes")
               ELSE [outcome |-> "return", fn_name |-> "anchorV4",
                     func_params |-> <<big_endian_numeral(slice(input_bytes, 4, 32)),
                                       slice(input_bytes, 36, 32),
                                       slice(input_bytes, 68, 32)>>]

\* the Web3.py path of decode_anchor_tx_input: [anchor_number] when it returns,
\* <<>> when control falls through to the manual decoding
decode_anchor_via_abi(l2_contract, tx_input) ==
    IF l2_contract = "none" THEN <<>>
    ELSE LET decoded == decode_function_input(l2_contract, tx_input)
         IN IF decoded.outcome = "raise" THEN <<>>
            ELSE IF decoded.fn_name = "anchorV4" THEN <<decoded.func_params[1]>>
            ELSE <<>>

\* variant: the anchor number is read two bytes too early in word 0
decode_anchor_manually_wrong_offset(tx_input) ==
    LET data == bytes_fromhex(strip_0x(tx_input))
    IN IF data.outcome = "raise" THEN <<>>
       ELSE IF Len(data.value) < 4 + 32 * 3 THEN <<>>
       ELSE <<big_endian_numeral(slice(slice(data.value, 4, 32), 24, 6))>>

\* variant: one word after the selector is enough
decode_anchor_manually_one_word(tx_input) ==
    LET data == bytes_fromhex(strip_0x(tx_input))
    IN IF data.outcome = "raise" THEN <<>>
       ELSE IF Len(data.value) < 4 + 32 THEN <<>>
       ELSE <<big_endian_numeral(slice(slice(data.value, 4, 32), 26, 6))>>

\* the manual fallback of decode_anchor_tx_input: the selector is logged and
\* not compared, the anchor number is the low 6 bytes of word 0
decode_anchor_manually(tx_input) ==
    LET data == bytes_fromhex(strip_0x(tx_input))
    IN IF data.outcome = "raise" THEN <<>>
       ELSE IF Len(data.value) < 4 + 32 * 3 THEN <<>>
       ELSE <<big_endian_numeral(slice(slice(data.value, 4, 32), 26, 6))>>

\* decode_anchor_tx_input: Optional[int]
decode_anchor_tx_input(l2_contract, tx_input) ==
    IF decode_anchor_via_abi(l2_contract, tx_input) # <<>>
    THEN decode_anchor_via_abi(l2_contract, tx_input)
    ELSE decode_anchor_manually(tx_input)

\* variant: a block whose proposal id cannot be extracted is given proposal id 0
parse_l2_block_keep_missing_id(block, l2_contract, l2_block_number) ==
    IF block = <<>> THEN <<>>
    ELSE IF block[1].extraData = <<>> \/ block[1].extraData = <<"0", "x">> THEN <<>>
    ELSE LET proposal_id == extract_proposal_id_from_extradata(block[1].extraData)
             transactions == block[1].transactions
         IN IF transactions = <<>> THEN <<>>
            ELSE IF transactions[1].input = <<"0", "x">> \/ Len(transactions[1].input) <= 2
            THEN <<>>
            ELSE LET anchor_number == decode_anchor_tx_input(l2_contract, transactions[1].input)
                 IN IF anchor_number = <<>> THEN <<>>
                    ELSE <<AnchorTxInfo(IF proposal_id = <<>> THEN <<>> ELSE proposal_id[1],
                                        anchor_number[1], l2_block_number)>>

\* variant: the anchor number is taken from the last transaction of the block
parse_l2_block_last_transaction(block, l2_contract, l2_block_number) ==
    IF block = <<>> THEN <<>>
    ELSE IF block[1].extraData = <<>> \/ block[1].extraData = <<"0", "x">> THEN <<>>
    ELSE LET proposal_id == extract_proposal_id_from_extradata(block[1].extraData)
             transactions == block[1].transactions
             anchor_tx == transactions[Len(transactions)]
         IN IF proposal_id = <<>> THEN <<>>
            ELSE IF transactions = <<>> THEN <<>>
            ELSE IF anchor_tx.input = <<"0", "x">> \/ Len(anchor_tx.input) <= 2 THEN <<>>
            ELSE LET anchor_number == decode_anchor_tx_input(l2_contract, anchor_tx.input)
                 IN IF anchor_number = <<>> THEN <<>>
                    ELSE <<AnchorTxInfo(proposal_id[1], anchor_number[1], l2_block_number)>>

\* the body of parse_l2_block_anchor_tx on the block get_l2_block returned
\* (<<>> when it returned None): Optional[AnchorTxInfo]
parse_l2_block(block, l2_contract, l2_block_number) ==
    IF block = <<>> THEN <<>>
    ELSE IF block[1].extraData = <<>> \/ block[1].extraData = <<"0", "x">> THEN <<>>
    ELSE LET proposal_id == extract_proposal_id_from_extradata(block[1].extraData)
             transactions == block[1].transactions
         IN IF proposal_id = <<>> THEN <<>>
            ELSE IF transactions = <<>> THEN <<>>
            ELSE IF transactions[1].input = <<"0", "x">> \/ Len(transactions[1].input) <= 2
            THEN <<>>
            ELSE LET anchor_number == decode_anchor_tx_input(l2_contract, transactions[1].input)
                 IN IF anchor_number = <<>> THEN <<>>
                    ELSE <<AnchorTxInfo(proposal_id[1], anchor_number[1], l2_block_number)>>

\* the hex string of bytes as a node renders it, with or without "0x"
HexString(prefix, bytes) ==
    (IF prefix THEN <<"0", "x">> ELSE <<>>)
    \o [i \in 1..(2 * Len(bytes)) |->
           IF i % 2 = 1 THEN HexDigits[(bytes[(i + 1) \div 2] \div 16) + 1]
           ELSE HexDigits[(bytes[i \div 2] % 16) + 1]]

\* 6-byte big-endian forms of proposal ids and anchor numbers
Uint48Samples == {<<0, 0, 0, 0, 0, 5>>, <<0, 0, 0, 0, 0, 0>>, <<255, 2, 3, 4, 5, 6>>}

\* extraData fields: a config byte, a 6-byte proposal id and up to MaxExtraTail
\* further bytes, cut to every length; and fields that are no hex strings
ExtraDataBytes ==
    {SubSeq(<<config>> \o id \o [i \in 1..MaxExtraTail |-> 170 + i], 1, n) :
        config \in {75, 0}, id \in Uint48Samples, n \in 0..(7 + MaxExtraTail)}

ExtraDatas ==
    {HexString(prefix, bytes) : prefix \in BOOLEAN, bytes \in ExtraDataBytes}
    \cup {<<"0", "x", "4", "B", "0", "0", "0", "0", "0", "0", "0", "0", "0", "0", "0", "5">>,
          <<"0", "x", "4", "b", "0", "0", "0", "0", "0", "0", "0", "0", "0", "0", "0", "5", "1">>,
          <<"0", "x", "4", "b", "0", "0", "0", "0", "0", "0", "0", "0", "0", "0", "z", "5">>}

\* anchor call-inputs: a selector, word 0 (26 high bytes and a 6-byte number),
\* the block hash, the state root and up to MaxInputTail further bytes, cut
InputCuts == {0, 3, 4, 36, 99} \cup (100..(100 + MaxInputTail))

TxInputBytes ==
    {SubSeq(selector \o [i \in 1..26 |-> IF i = 25 THEN high ELSE 0] \o number
            \o [i \in 1..32 |-> 17] \o [i \in 1..32 |-> 34]
            \o [i \in 1..MaxInputTail |-> 51], 1, n) :
        selector \in {AnchorSelector, OtherSelector, UnknownSelector},
        high \in {0, 1}, number \in Uint48Samples, n \in InputCuts}

TxInputs ==
    {HexString(prefix, bytes) : prefix \in BOOLEAN, bytes \in TxInputBytes}
    \cup {<<"0", "x">>}

GoodExtraData == HexString(TRUE, <<75, 0, 0, 0, 0, 0, 5>>)
GoodTxInput ==
    HexString(TRUE, AnchorSelector \o [i \in 1..31 |-> 0] \o <<2>>
                    \o [i \in 1..32 |-> 17] \o [i \in 1..32 |-> 34])

OtherTxInput ==
    HexString(TRUE, OtherSelector \o [i \in 1..31 |-> 0] \o <<9>>
                    \o [i \in 1..32 |-> 17] \o [i \in 1..32 |-> 34])

\* what get_l2_block returns: None, or a block with its extraData and transactions
RawBlocks ==
    {<<>>}
    \cup {<<[extraData |-> e, transactions |-> <<[input |-> GoodTxInput]>>]>> : e \in ExtraDatas}
    \cup {<<[extraData |-> GoodExtraData, transactions |-> <<[input |-> t]>>]>> : t \in TxInputs}
    \cup {<<[extraData |-> e, transactions |-> <<>>]>> : e \in {GoodExtraData, <<>>}}
    \cup {<<[extraData |-> GoodExtraData,
             transactions |-> <<[input |-> t[1]], [input |-> t[2]]>>]>> :
             t \in {<<GoodTxInput, OtherTxInput>>, <<OtherTxInput, GoodTxInput>>,
                    <<<<"0", "x">>, GoodTxInput>>, <<GoodTxInput, <<"0", "x">>>>}}

L2Contracts == {"none", "anchor_abi", "event_abi"}

\* the call frame of a parser entry point: its str argument and its result
ParseCall(op, data, result) ==
    [dec EXCEPT !.op = op, !.data = data, !.result = [outcome |-> "return", value |-> result]]

\* a caller invokes extract_proposal_id_from_extradata on the block's extraData
CallExtractProposalId ==
    /\ dec.op = "none"
    /\ dec.fields[1].block # <<>>
    /\ LET extradata == dec.fields[1].block[1].extraData
       IN dec' = ParseCall("extract_proposal_id_from_extradata", extradata,
                           extract_proposal_id_from_extradata(extradata))
    /\ UNCHANGED <<resolver_vars, pass_vars, scan, run>>

\* a caller invokes decode_anchor_tx_input on the input of the first transaction
CallDecodeAnchorTxInput ==
    /\ dec.op = "none"
    /\ dec.fields[1].block # <<>>
    /\ dec.fields[1].block[1].transactions # <<>>
    /\ LET tx_input == dec.fields[1].block[1].transactions[1].input
       IN dec' = ParseCall("decode_anchor_tx_input", tx_input,
                           decode_anchor_tx_input(dec.fields[1].l2_contract, tx_input))
    /\ UNCHANGED <<resolver_vars, pass_vars, scan, run>>

\* a caller invokes parse_l2_block_anchor_tx(l2_block_number)
CallParseL2Block ==
    /\ dec.op = "none"
    /\ dec' = ParseCall("parse_l2_block_anchor_tx", <<>>,
                        parse_l2_block(dec.fields[1].block, dec.fields[1].l2_contract,
                                       dec.fields[1].l2_block_number))
    /\ UNCHANGED <<resolver_vars, pass_vars, scan, run>>

InitBlock ==
    /\ l1_logs = <<>>
    /\ proposal_block_cache \in {EmptyDict, [k \in {1} |-> 1]}
    /\ call = NoCall
    /\ first_result = EmptyDict
    /\ l2_chain = <<>>
    /\ l2_block_range = <<0, 0>>
    /\ true_range = <<0, 0>>
    /\ anchor_infos = <<>>
    /\ groups = <<>>
    /\ scan = NoScan
    /\ run = NoRun
    /\ \E block \in RawBlocks, l2_contract \in L2Contracts, l2_block_number \in 1..2 :
          dec = [NoDecode EXCEPT !.fields = <<[block |-> block, l2_contract |-> l2_contract,
                                               l2_block_number |-> l2_block_number]>>]
    /\ pc = "parse_block"

NextBlock == CallExtractProposalId \/ CallDecodeAnchorTxInput \/ CallParseL2Block

SpecBlock == InitBlock /\ [][NextBlock]_vars

\* ------------------------------------------------- the decode helper script
\* decode_shasta_event.py: main() decodes EVENT_DATA and prints the fields

Whitespace == {" ", "\n", "\t"}

\* str.lstrip() and str.rstrip()
RECURSIVE lstrip(_)
lstrip(str) ==
    IF str # <<>> /\ str[1] \in Whitespace THEN lstrip(Tail(str)) ELSE str

RECURSIVE rstrip(_)
rstrip(str) ==
    IF str # <<>> /\ str[Len(str)] \in Whitespace THEN rstrip(SubSeq(str, 1, Len(str) - 1))
    ELSE str

\* str.strip()
strip(str) == rstrip(lstrip(str))

\* the lower-case form of the upper-case characters of EVENT_DATA
LowerCase ==
    [c \in {"A", "B", "C", "D", "E", "F", "X"} |->
        IF c = "X" THEN "x"
        ELSE HexDigits[CHOOSE k \in DOMAIN UpperHexDigits : UpperHexDigits[k] = c]]

\* str.lower() on the characters of EVENT_DATA
lower(str) ==
    [i \in DOMAIN str |-> IF str[i] \in DOMAIN LowerCase THEN LowerCase[str[i]] ELSE str[i]]

\* format_hash, lines 30-33
format_hash(value) ==
    IF Len(value) >= 2 /\ value[1] = "0" /\ value[2] = "x" THEN value ELSE <<"0", "x">> \o value

\* obj.name on a dataclass instance: AttributeError for a field the class does not have
getattr(obj, name) ==
    IF name \in DOMAIN obj THEN [outcome |-> "return", value |-> obj[name]]
    ELSE [outcome |-> "raise",
          error |-> [type |-> "AttributeError",
                     message |-> "'ShastaEventData' object has no attribute '" \o name \o "'"]]

\* one print call: the text and the value formatted into it
Line(text, value) == [text |-> text, value |-> value]

\* lines 46-50
print_proposal(event) ==
    <<Line("=== Proposal ===", <<>>),
      Line("id", event.proposal.id),
      Line("proposer", event.proposal.proposer),
      Line("timestamp", event.proposal.timestamp),
      Line("end_of_submission_window", event.proposal.end_of_submission_window_timestamp)>>

\* lines 57-63: one source and its blob hashes
print_source(idx, source) ==
    <<Line("source", [idx |-> idx, forced_inclusion |-> source.is_forced_inclusion,
                      offset |-> source.blob_slice.offset,
                      timestamp |-> source.blob_slice.timestamp])>>
    \o [hidx \in DOMAIN source.blob_slice.blob_hashes |->
           Line("blob_hash", [hidx |-> hidx - 1,
                              hash |-> format_hash(source.blob_slice.blob_hashes[hidx])])]

\* lines 52-63
print_derivation(event) ==
    <<Line("=== Derivation ===", <<>>),
      Line("origin_block_number", event.derivation.origin_block_number),
      Line("origin_block_hash", event.derivation.origin_block_hash),
      Line("basefee_sharing_pctg", event.derivation.basefee_sharing_pctg),
      Line("sources", Len(event.derivation.sources))>>
    \o Concat([i \in DOMAIN event.derivation.sources |->
                  print_source(i - 1, event.derivation.sources[i])])

\* lines 66-71: the fields of event.core_state, in the order printed
CoreStateFields ==
    <<"next_proposal_id", "last_proposal_block_id", "last_finalized_proposal_id",
      "last_checkpoint_timestamp", "last_finalized_transition_hash", "bond_instructions_hash">>

\* lines 65-71: the header is printed, then event.core_state is read for the first field
print_core_state(event) ==
    LET core_state == getattr(event, "core_state")
    IN IF core_state.outcome = "raise"
       THEN [outcome |-> "raise", error |-> core_state.error,
             printed |-> <<Line("=== Core State ===", <<>>)>>]
       ELSE [outcome |-> "return",
             printed |-> <<Line("=== Core State ===", <<>>)>>
                         \o [i \in DOMAIN CoreStateFields |->
                                Line(CoreStateFields[i], core_state.value[CoreStateFields[i]])]]

\* F applied to the value of x, computed once
Bind(x, F(_)) == CHOOSE r \in {F(v) : v \in {x}} : TRUE

\* lines 46-79: the event is printed
main_event(event) ==
    LET head == print_proposal(event) \o print_derivation(event)
        core == print_core_state(event)
    IN IF core.outcome = "raise"
       THEN [outcome |-> "raise", error |-> core.error,
             decoded |-> <<event>>, printed |-> head \o core.printed]
       ELSE [outcome |-> "return", decoded |-> <<event>>,
             printed |-> head \o core.printed \o <<Line("NOTE:", <<>>)>>]

\* line 44: a ValueError of the decoder ends main
main_decoded(event) ==
    IF event.outcome = "raise"
    THEN [outcome |-> "raise", error |-> event.error, decoded |-> <<>>, printed |-> <<>>]
    ELSE main_event(event.value)

\* line 44: bytes.fromhex, then the decoder
main_bytes(bytes) ==
    IF bytes.outcome = "raise"
    THEN [outcome |-> "raise", error |-> bytes.error, decoded |-> <<>>, printed |-> <<>>]
    ELSE Bind(decode_event_data(bytes.value), main_decoded)

\* lines 40-44
main_payload(payload) ==
    IF payload = <<>> \/ Len(payload) % 2 # 0
    THEN [outcome |-> "raise",
          error |-> [type |-> "SystemExit",
                     message |-> "EVENT_DATA must be a non-empty hex string"],
          decoded |-> <<>>, printed |-> <<>>]
    ELSE Bind(bytes_fromhex(payload), main_bytes)

\* lines 38-39
main_lowered(payload) == Bind(strip_0x(payload), main_payload)

\* line 37
main_stripped(payload) == Bind(lower(payload), main_lowered)

\* main, lines 36-79: the outcome, the event the decoder returned (decoded,
\* empty when it returned none) and the lines printed
main(EVENT_DATA) == Bind(strip(EVENT_DATA), main_stripped)

\* the upper-case form of the characters of a hex string
UpperCase ==
    [c \in {HexDigits[k] : k \in 1..16} \cup {"x"} |->
        IF c = "x" THEN "X"
        ELSE UpperHexDigits[CHOOSE k \in DOMAIN HexDigits : HexDigits[k] = c]]

\* str.upper() on a hex string
upper(str) == [i \in DOMAIN str |-> UpperCase[str[i]]]

\* the values of EVENT_DATA that spell the bytes data: bare, with 0x, in upper
\* case between whitespace, and with the last digit missing
EventDataStrings(data) ==
    {HexString(FALSE, data), HexString(TRUE, data),
     <<" ">> \o Bind(HexString(TRUE, data), upper) \o <<"\n">>,
     SubSeq(HexString(FALSE, data), 1, 2 * Len(data) - 1)}

\* the script is run with EVENT_DATA set to a spelling of data
CallMain ==
    /\ dec.op = "none"
    /\ \E EVENT_DATA \in EventDataStrings(dec.data) :
          dec' = [dec EXCEPT !.op = "main", !.result = main(EVENT_DATA)]
    /\ UNCHANGED <<resolver_vars, pass_vars, scan, run>>

NextDecode == CallDecodeEventData \/ CallExtractBatchId \/ CallMain

SpecDecode == InitDecode /\ [][NextDecode]_vars

\* ------------------------------------------------------------------ claims
\* index of the first log of logs that decodes to id (0: none)
FirstIndexOf(logs, id) ==
    IF \E i \in DOMAIN logs : logs[i].id = id
    THEN CHOOSE i \in DOMAIN logs :
            /\ logs[i].id = id
            /\ \A j \in DOMAIN logs : logs[j].id = id => i <= j
    ELSE 0

\* block number of the first log of logs that decodes to id, None if there is none
FirstBlockOf(logs, id) ==
    IF FirstIndexOf(logs, id) = 0 THEN None ELSE logs[FirstIndexOf(logs, id)].blockNumber

\* the chain holds a Proposed event for id at block b inside the window
EventIn(id, b, window) ==
    \E i \in DOMAIN l1_logs :
        /\ l1_logs[i].id = id
        /\ l1_logs[i].blockNumber = b
        /\ window[1] <= b /\ b <= window[2]

\* C1: once a proposal_id has been resolved, a later resolver call (batch or
\* individual) that requests only resolved ids issues no event-log query and
\* returns, for each id, the value its first resolution returned (None included).
C1_CacheIdempotence ==
    [][(call'.op # "none" /\ call'.requested \subseteq DOMAIN first_result)
        => /\ call'.get_logs = <<>>
           /\ \A id \in call'.requested : call'.result[id] = first_result[id]]_vars

C1_Witness ==
    /\ call.op # "none"
    /\ call.requested # {}
    /\ call.hits = call.requested
    /\ \E id \in call.requested : call.result[id] = None
    /\ \E id \in call.requested : EventIn(id, 1, call.search)

\* C2: after a batch call (query succeeded or failed) every requested id is a
\* key of the cache and the returned mapping has exactly the requested ids as
\* keys, each mapped to its cache value.
C2_BatchCachesAllRequested ==
    call.op = "batch" =>
        /\ call.requested \subseteq DOMAIN proposal_block_cache
        /\ DOMAIN call.result = call.requested
        /\ \A id \in call.requested : call.result[id] = proposal_block_cache[id]

C2_Witness ==
    /\ call.op = "batch"
    /\ ~call.failed
    /\ call.get_logs # <<>>
    /\ \E id \in call.requested \ call.hits : proposal_block_cache[id] = None
    /\ \E id \in call.requested \ call.hits : proposal_block_cache[id] # None

\* C3 as claimed: every batch call (whose query, if any, did not fail) returns,
\* for every requested id, a block of a Proposed event for that id inside the
\* call's window when there is one and None only when there is none.
C3_WindowExact ==
    (call.op = "batch" /\ ~call.failed) =>
        \A id \in call.requested :
            IF \E b \in L1Blocks : EventIn(id, b, call.search)
            THEN call.result[id] # None /\ EventIn(id, call.result[id], call.search)
            ELSE call.result[id] = None

\* C3 amended: for the requested ids that were not cached before the call and
\* a query that succeeded, the result is the block of the first Proposed event
\* for the id inside the window, None exactly when the window holds none; on a
\* failed query those ids map to None; an id cached before the call maps to
\* its cached value whatever the window.
C3_WindowExactForUncached ==
    [][call'.op = "batch" =>
        /\ \A id \in call'.requested \ call'.hits :
              IF call'.failed THEN call'.result[id] = None
              ELSE IF \E b \in L1Blocks : EventIn(id, b, call'.search)
                   THEN /\ EventIn(id, call'.result[id], call'.search)
                        /\ \A b \in L1Blocks :
                              EventIn(id, b, call'.search) => call'.result[id] <= b
                   ELSE call'.result[id] = None
        /\ \A id \in call'.hits : call'.result[id] = proposal_block_cache[id]]_vars

C3_Witness ==
    /\ call.op = "batch"
    /\ ~call.failed
    /\ \E id \in call.requested \ call.hits :
          /\ call.result[id] = None
          /\ \E b \in L1Blocks : EventIn(id, b, <<1, MaxL1Block>>)
    /\ \E id \in call.requested \ call.hits : call.result[id] # None

\* C4: in a batch call whose query returned logs, each previously uncached
\* requested id is mapped to the block of the first returned log that decodes to
\* it (a later log with the same id does not replace it); the returned mapping
\* and the cache after the call are functions of the cache before the call and
\* of the query result.
C4_FirstOccurrenceWins ==
    [][(call'.op = "batch" /\ ~call'.failed) =>
        /\ proposal_block_cache' =
              [k \in DOMAIN proposal_block_cache \cup call'.requested |->
                  IF k \in DOMAIN proposal_block_cache
                  THEN proposal_block_cache[k]
                  ELSE FirstBlockOf(call'.logs, k)]
        /\ call'.result = [id \in call'.requested |-> proposal_block_cache'[id]]]_vars

C4_Witness ==
    /\ call.op = "batch"
    /\ ~call.failed
    /\ \E id \in call.requested \ call.hits :
          \E i, j \in DOMAIN call.logs :
              /\ i < j
              /\ call.logs[i].id = id /\ call.logs[j].id = id
              /\ call.logs[i].blockNumber < call.logs[j].blockNumber
              /\ call.result[id] = call.logs[i].blockNumber

\* C5: when the event-log query of a batch call fails the call returns
\* normally, every requested id that was not cached is cached as None and
\* every entry the cache had before the call is unchanged.
C5_QueryFailureRecovered ==
    [][(call'.op = "batch" /\ call'.failed) =>
        /\ ~call'.raised
        /\ \A id \in call'.requested \ DOMAIN proposal_block_cache :
              id \in DOMAIN proposal_block_cache' /\ proposal_block_cache'[id] = None
        /\ \A k \in DOMAIN proposal_block_cache :
              k \in DOMAIN proposal_block_cache'
              /\ proposal_block_cache'[k] = proposal_block_cache[k]]_vars

C5_Witness ==
    /\ call.op = "batch"
    /\ call.failed
    /\ call.hits # {}
    /\ \E id \in call.hits : proposal_block_cache[id] # None
    /\ \E id \in call.requested \ call.hits :
          /\ proposal_block_cache[id] = None
          /\ \E b \in L1Blocks : EventIn(id, b, call.search)

\* C6: the cache grows monotonically: no resolver operation removes a key, and
\* an entry once written (a block number or None) is never given another value.
C6_CacheMonotone ==
    [][\A k \in DOMAIN proposal_block_cache :
          /\ k \in DOMAIN proposal_block_cache'
          /\ proposal_block_cache'[k] = proposal_block_cache[k]]_vars

C6_Witness ==
    /\ call.op = "batch"
    /\ ~call.failed
    /\ call.requested \ call.hits # {}
    /\ \E id \in call.hits :
          /\ proposal_block_cache[id] = None
          /\ \E i \in DOMAIN call.logs : call.logs[i].id = id

\* C7: one batch call issues at most one event-log query, over exactly
\* [search_start, search_end], and none when every requested id is cached; an
\* id cached before the call keeps its value even when the query issued for the
\* other ids returns a log for it.
C7_AtMostOneWindowedQuery ==
    [][call'.op = "batch" =>
        /\ Len(call'.get_logs) <= 1
        /\ \A i \in DOMAIN call'.get_logs : call'.get_logs[i] = call'.search
        /\ (call'.requested \subseteq DOMAIN proposal_block_cache => call'.get_logs = <<>>)
        /\ \A id \in call'.requested \cap DOMAIN proposal_block_cache :
              /\ proposal_block_cache'[id] = proposal_block_cache[id]
              /\ call'.result[id] = proposal_block_cache[id]]_vars

C7_Witness ==
    /\ call.op = "batch"
    /\ Len(call.get_logs) = 1
    /\ call.hits # {}
    /\ \E id \in call.hits :
          \E i \in DOMAIN call.logs :
              call.logs[i].id = id /\ call.logs[i].blockNumber # proposal_block_cache[id]

\* the l2_block_numbers of the groups, concatenated in output order
RECURSIVE Flatten(_)
Flatten(grps) ==
    IF grps = <<>> THEN <<>> ELSE Head(grps).l2_block_numbers \o Flatten(Tail(grps))

\* C8: the l2_block_numbers of the groups, concatenated in output order, are the
\* input block sequence (nothing omitted, duplicated or reordered), every member
\* of a group carries the group's proposal_id, and the empty input gives no group.
C8_GroupsPartitionInput ==
    pc = "grouped" =>
        /\ Flatten(groups) = [i \in DOMAIN anchor_infos |-> anchor_infos[i].l2_block_number]
        /\ \A g \in DOMAIN groups :
              \A k \in DOMAIN groups[g].l2_block_numbers :
                 \E i \in DOMAIN anchor_infos :
                    /\ anchor_infos[i].l2_block_number = groups[g].l2_block_numbers[k]
                    /\ anchor_infos[i].proposal_id = groups[g].proposal_id
        /\ (anchor_infos = <<>> => groups = <<>>)

C8_Witness ==
    /\ pc = "grouped"
    /\ Len(groups) = 2
    /\ Len(groups[1].l2_block_numbers) = 2
    /\ Len(anchor_infos) = 3

\* C9: every group is non-empty, adjacent groups have different proposal_ids,
\* and the first blocks of the groups are exactly the entries whose proposal_id
\* differs from the previous entry's (the first entry included).
C9_GroupsAreMaximalRuns ==
    pc = "grouped" =>
        /\ \A g \in DOMAIN groups : groups[g].l2_block_numbers # <<>>
        /\ \A g \in 1..(Len(groups) - 1) : groups[g].proposal_id # groups[g + 1].proposal_id
        /\ {groups[g].l2_block_numbers[1] : g \in DOMAIN groups}
             = {anchor_infos[i].l2_block_number :
                  i \in {j \in DOMAIN anchor_infos :
                           j = 1 \/ anchor_infos[j].proposal_id # anchor_infos[j - 1].proposal_id}}

C9_Witness ==
    /\ pc = "grouped"
    /\ Len(groups) = 3
    /\ groups[1].proposal_id = groups[3].proposal_id

\* C10: every group a correlation pass produces has an l2_block_numbers sequence
\* in which each element is the previous plus one.
C10_PassGroupsGapFree ==
    \A g \in DOMAIN groups :
        \A k \in 1..(Len(groups[g].l2_block_numbers) - 1) :
            groups[g].l2_block_numbers[k + 1] = groups[g].l2_block_numbers[k] + 1

\* the entry of anchor_infos whose l2_block_number is b
InfoOfBlock(b) ==
    CHOOSE info \in {anchor_infos[i] : i \in DOMAIN anchor_infos} : info.l2_block_number = b

\* C11: a group's anchor_number is the anchor_number of its first member; the
\* members that follow in the same run do not change it, whatever their own
\* anchor_number is
C11_AnchorOfFirstMember ==
    pc = "grouped" =>
        \A g \in DOMAIN groups :
            groups[g].anchor_number = InfoOfBlock(groups[g].l2_block_numbers[1]).anchor_number

\* a group of at least two members, a later one with another anchor_number
C11_Witness ==
    /\ pc = "grouped"
    /\ \E g \in DOMAIN groups :
          \E j \in 2..Len(groups[g].l2_block_numbers) :
              InfoOfBlock(groups[g].l2_block_numbers[j]).anchor_number
                  # groups[g].anchor_number

\* C12 as stated: boundary expansion of an expanded range yields that range
\* again, on every chain and for every requested range
C12_BoundaryIdempotence ==
    pc = "parse" => expand_boundaries(true_range) = true_range

\* C12: boundary expansion of an expanded range [true_start, true_end] yields
\* that range again whenever the forward scan of the first expansion ended before
\* its cap (true_end - end < 100); a run that reaches the cap may grow again
C12_BoundaryIdempotenceBelowCap ==
    (pc = "parse" /\ true_range[2] - l2_block_range[2] < MaxForward)
        => expand_boundaries(true_range) = true_range

\* an expansion that grew the range at both ends, below the cap
C12_Witness ==
    /\ pc = "parse"
    /\ true_range[1] < l2_block_range[1]
    /\ true_range[2] > l2_block_range[2]
    /\ true_range[2] - l2_block_range[2] < MaxForward
    /\ expand_boundaries(true_range) = true_range

\* block b of the chain decodes to proposal id
DecodesTo(b, id) ==
    /\ b \in DOMAIN l2_chain
    /\ l2_chain[b] # <<>>
    /\ l2_chain[b][1].proposal_id = id

\* C13: find_proposal_start_block(start, id) returns the smallest s <= start
\* such that every block of [s, start - 1] decodes to id: it stops at the first
\* block that decodes to another id or does not decode, returns 0 when every
\* block down to 0 matches, and never returns more than start or less than 0
C13_BackwardScan ==
    (scan.op = "start" /\ scan.pc = "returned") =>
        LET s == scan.last_valid_block
        IN /\ 0 <= s /\ s <= scan.block
           /\ \A b \in s..(scan.block - 1) : DecodesTo(b, scan.proposal_id)
           /\ s = 0 \/ ~DecodesTo(s - 1, scan.proposal_id)
           /\ s = find_proposal_start_block(scan.block, scan.proposal_id)

\* a backward scan that moved and was stopped by a block above block 0
C13_Witness ==
    /\ scan.op = "start" /\ scan.pc = "returned"
    /\ 0 < scan.last_valid_block
    /\ scan.last_valid_block < scan.block

\* C14: find_proposal_end_block(end, id, max_forward) returns e with
\* end <= e <= end + max_forward such that every block of [end + 1, e] decodes
\* to id, and when e < end + max_forward block e + 1 decodes to another id or
\* does not decode; the pass calls it with the default cap of 100
C14_ForwardScan ==
    (scan.op = "end" /\ scan.pc = "returned") =>
        LET e == scan.last_valid_block
        IN /\ scan.block <= e /\ e <= scan.block + scan.max_forward
           /\ \A b \in (scan.block + 1)..e : DecodesTo(b, scan.proposal_id)
           /\ e < scan.block + scan.max_forward => ~DecodesTo(e + 1, scan.proposal_id)
           /\ e = find_proposal_end_block(scan.block, scan.proposal_id, scan.max_forward)
           /\ MaxForward = 100

\* a forward scan cut by its cap: the block after the returned one still matches
C14_Witness ==
    /\ scan.op = "end" /\ scan.pc = "returned"
    /\ scan.max_forward > 0
    /\ scan.last_valid_block = scan.block + scan.max_forward
    /\ DecodesTo(scan.last_valid_block + 1, scan.proposal_id)

\* the fetches a scan made lie within its budget
FetchesWithinBudget ==
    /\ scan.op = "start" => scan.fetches <= scan.block
    /\ scan.op = "end" => scan.fetches <= scan.max_forward

\* C15: both scans terminate on every chain; the forward scan makes at most
\* max_forward block fetches, also where every block carries the same
\* proposal_id, and the backward scan at most start fetches
C15_ScansTerminateWithinBudget ==
    []FetchesWithinBudget /\ <>(scan.pc = "returned")

\* a forward scan over a chain of one proposal returned after exactly
\* max_forward = 100 fetches
C15_Witness ==
    /\ scan.op = "end" /\ scan.pc = "returned"
    /\ scan.max_forward = MaxForward
    /\ scan.fetches = MaxForward
    /\ DecodesTo(scan.last_valid_block + 1, scan.proposal_id)

\* the widths N of the primitive readers
ReaderWidth ==
    [op \in {"unpack_uint8", "unpack_uint16", "unpack_uint24", "unpack_uint48",
             "unpack_address", "unpack_hash"} |->
        CASE op = "unpack_uint8" -> 1
          [] op = "unpack_uint16" -> 2
          [] op = "unpack_uint24" -> 3
          [] op = "unpack_uint48" -> 6
          [] op = "unpack_address" -> 20
          [] op = "unpack_hash" -> 32]

\* C16: for each primitive reader of width N, every buffer and every cursor
\* pos, the read succeeds iff pos + N <= len(buffer); on success the returned
\* cursor is pos + N; on failure nothing is returned (no value, no zero fill)
C16_ReaderWidth ==
    dec.op \in DOMAIN ReaderWidth =>
        LET N == ReaderWidth[dec.op]
        IN /\ dec.result.outcome = "return" <=> dec.pos + N <= Len(dec.data)
           /\ dec.result.outcome = "return" => dec.result.new_pos = dec.pos + N
           /\ dec.result.outcome # "return" =>
                 /\ dec.result.outcome = "raise"
                 /\ "value" \notin DOMAIN dec.result
                 /\ "new_pos" \notin DOMAIN dec.result

\* a hash32 read that ends exactly at the end of the buffer, from a cursor
\* other than 0
C16_Witness ==
    /\ dec.op = "unpack_hash"
    /\ dec.pos > 0
    /\ dec.pos + 32 = Len(dec.data)
    /\ dec.result.outcome = "return"
    /\ dec.result.new_pos = Len(dec.data)

\* C19: when a read fails because the buffer is shorter than the field, the
\* error handed to the caller carries the byte offset at which the failing
\* read started (uint48 on a 5-byte buffer at cursor 0: offset 0)
C19_ErrorCarriesOffset ==
    (dec.op \in DOMAIN ReaderWidth /\ dec.result.outcome = "raise") =>
        /\ "offset" \in DOMAIN dec.result.error
        /\ dec.result.error.offset = dec.pos

\* the value of a lowercase hex digit
LowerHexValue ==
    ("0" :> 0) @@ ("1" :> 1) @@ ("2" :> 2) @@ ("3" :> 3) @@ ("4" :> 4) @@ ("5" :> 5)
    @@ ("6" :> 6) @@ ("7" :> 7) @@ ("8" :> 8) @@ ("9" :> 9) @@ ("a" :> 10) @@ ("b" :> 11)
    @@ ("c" :> 12) @@ ("d" :> 13) @@ ("e" :> 14) @@ ("f" :> 15)

\* str is "0x" followed by the lowercase hex digits of bytes
IsHexOf(str, bytes) ==
    /\ Len(str) = 2 + 2 * Len(bytes)
    /\ str[1] = "0" /\ str[2] = "x"
    /\ \A i \in 1..Len(bytes) :
          /\ str[2 * i + 1] \in DOMAIN LowerHexValue
          /\ str[2 * i + 2] \in DOMAIN LowerHexValue
          /\ 16 * LowerHexValue[str[2 * i + 1]] + LowerHexValue[str[2 * i + 2]] = bytes[i]

\* the decoded event holds exactly the field values fields
DecodesToFields(event, fields) ==
    /\ event.proposal.id = fields.id
    /\ IsHexOf(event.proposal.proposer, fields.proposer)
    /\ event.proposal.timestamp = fields.timestamp
    /\ event.proposal.end_of_submission_window_timestamp
           = fields.end_of_submission_window_timestamp
    /\ IsHexOf(event.proposal.parent_proposal_hash, fields.parent_proposal_hash)
    /\ event.derivation.origin_block_number = fields.origin_block_number
    /\ IsHexOf(event.derivation.origin_block_hash, fields.origin_block_hash)
    /\ event.derivation.basefee_sharing_pctg = fields.basefee_sharing_pctg
    /\ Len(event.derivation.sources) = Len(fields.sources)
    /\ \A j \in DOMAIN fields.sources :
          LET source == event.derivation.sources[j]
              given == fields.sources[j]
          IN /\ source.is_forced_inclusion = (given.flag # 0)
             /\ Len(source.blob_slice.blob_hashes) = Len(given.blob_hashes)
             /\ \A h \in DOMAIN given.blob_hashes :
                   IsHexOf(source.blob_slice.blob_hashes[h], given.blob_hashes[h])
             /\ source.blob_slice.offset = given.offset
             /\ source.blob_slice.timestamp = given.timestamp
    /\ IsHexOf(event.proposal.derivation_hash, fields.derivation_hash)

\* C17: decoding the buffer that concatenates id(u48), proposer(address),
\* timestamp(u48), submission_window_end(u48), parent_hash(hash32),
\* origin_block_number(u48), origin_block_hash(hash32), basefee_sharing_pctg(u8),
\* sources_count(u16), the sources and derivation_hash(hash32) in that order
\* reproduces exactly those values: numbers exact, hashes and addresses as
\* lowercase hex with a 0x prefix
C17_OrderInvariant ==
    (dec.op = "decode_event_data" /\ dec.data = encode_event_data(dec.fields[1])) =>
        /\ dec.result.outcome = "return"
        /\ DecodesToFields(dec.result.value, dec.fields[1])

\* a decoded payload with two sources, one of them with a blob hash, and a
\* 6-digit id
C17_Witness ==
    /\ dec.op = "decode_event_data"
    /\ dec.data = encode_event_data(dec.fields[1])
    /\ dec.result.outcome = "return"
    /\ Len(dec.result.value.proposal.id) = 6
    /\ Len(dec.result.value.derivation.sources) >= 2
    /\ \E j \in DOMAIN dec.result.value.derivation.sources :
          dec.result.value.derivation.sources[j].blob_slice.blob_hashes # <<>>

\* the 32-byte buffer: the 6-byte id 1 followed by 26 zero bytes
ExampleBuffer == <<0, 0, 0, 0, 0, 1>> \o [i \in 1..26 |-> 0]

\* 0x followed by 40 zeros
ZeroAddress == <<"0", "x">> \o [i \in 1..40 |-> "0"]

\* C18 as stated: decoding the 32-byte buffer yields a Proposal with id == 1
\* and the all-zero proposer
C18_ExampleBufferDecodes ==
    (dec.op = "decode_event_data" /\ dec.data = ExampleBuffer) =>
        /\ dec.result.outcome = "return"
        /\ dec.result.value.proposal.id = <<1>>
        /\ dec.result.value.proposal.proposer = ZeroAddress

\* C18: decoding a complete payload that begins with the 6-byte id 1 and 20 zero
\* bytes yields a Proposal with id == 1 and proposer == 0x followed by 40 zeros;
\* the 32-byte buffer alone is truncated and its decoding raises
C18_ExamplePrefixDecodes ==
    dec.op = "decode_event_data" =>
        /\ dec.data = ExampleBuffer => dec.result.outcome = "raise"
        /\ (/\ dec.result.outcome = "return"
            /\ SubSeq(dec.data, 1, 26) = SubSeq(ExampleBuffer, 1, 26)) =>
              /\ dec.result.value.proposal.id = <<1>>
              /\ dec.result.value.proposal.proposer = ZeroAddress

\* a complete payload that begins with the bytes of the example was decoded
C18_Witness ==
    /\ dec.op = "decode_event_data"
    /\ dec.result.outcome = "return"
    /\ SubSeq(dec.data, 1, 32) = ExampleBuffer
    /\ dec.result.value.proposal.id = <<1>>

\* numeral is the value whose big-endian form is bytes
IsBigEndianValueOf(numeral, bytes) ==
    /\ Len(numeral) <= Len(bytes)
    /\ numeral = <<>> \/ numeral[1] # 0
    /\ pad_numeral(numeral, Len(bytes)) = bytes

\* C20: for every buffer on which decode_event_data succeeds,
\* extract_batch_id(buffer) equals decode_event_data(buffer).proposal.id, and
\* for every buffer of at least 6 bytes it is the big-endian value of bytes
\* 0..5, whatever the remaining bytes are
C20_ExtractAgreesWithDecoder ==
    dec.op = "extract_batch_id" =>
        LET full == decode_event_data(dec.data)
        IN /\ dec.result.outcome = "return"
           /\ full.outcome = "return" => dec.result.value = <<full.value.proposal.id>>
           /\ Len(dec.data) >= 6 =>
                 /\ dec.result.value # <<>>
                 /\ IsBigEndianValueOf(dec.result.value[1], SubSeq(dec.data, 1, 6))

\* the id of a payload that decodes, with a nonzero most significant byte
C20_Witness ==
    /\ dec.op = "extract_batch_id"
    /\ decode_event_data(dec.data).outcome = "return"
    /\ dec.result.value # <<>>
    /\ Len(dec.result.value[1]) = 6

\* C21 as stated: on a buffer shorter than 6 bytes extract_batch_id fails with
\* the error the uint48 reader raises at cursor 0
C21_ExtractRaisesLikeReader ==
    (dec.op = "extract_batch_id" /\ Len(dec.data) < 6) =>
        /\ dec.result.outcome = "raise"
        /\ dec.result.error = unpack_uint48(dec.data, 0).error

\* C21: extract_batch_id applies the length check of the uint48 reader at
\* cursor 0: it yields an id exactly when that read succeeds; on a buffer
\* shorter than 6 bytes it yields no id, by returning None and not by raising
C21_ExtractChecksLikeReader ==
    dec.op = "extract_batch_id" =>
        /\ dec.result.outcome = "return"
        /\ dec.result.value = <<>> <=> unpack_uint48(dec.data, 0).outcome = "raise"
        /\ Len(dec.data) < 6 => dec.result.value = <<>>

\* extract_batch_id was called on the 5-byte head of a payload
C21_Witness ==
    /\ dec.op = "extract_batch_id"
    /\ Len(dec.data) = 5
    /\ dec.result.value = <<>>
    /\ unpack_uint48(dec.data, 0).outcome = "raise"

\* the sum over i of bytes[i] * 256^(N-i) of an N-byte sequence
RECURSIVE WeightedSum(_, _)
WeightedSum(bytes, i) ==
    IF i > Len(bytes) THEN 0
    ELSE bytes[i] * (256 ^ (Len(bytes) - i)) + WeightedSum(bytes, i + 1)

\* C22: for every buffer with enough bytes uint16, uint24 and uint48 return the
\* sum over i of byte[pos+i] * 256^(N-1-i): big-endian, zero-extended, in
\* [0, 2^16), [0, 2^24) and [0, 2^48) and never negative
C22_BigEndianZeroExtended ==
    (dec.op \in {"unpack_uint16", "unpack_uint24", "unpack_uint48"}
     /\ dec.result.outcome = "return") =>
        LET N == ReaderWidth[dec.op]
            bytes == SubSeq(dec.data, dec.pos + 1, dec.pos + N)
            value == dec.result.value
        IN IF dec.op = "unpack_uint48"
           THEN /\ IsBigEndianValueOf(value, bytes)
                /\ Len(value) <= 6
                /\ \A i \in DOMAIN value : value[i] \in 0..255
           ELSE /\ value = WeightedSum(bytes, 1)
                /\ 0 <= value
                /\ value < 256 ^ N

\* a uint24 read at a cursor other than 0 whose three bytes differ
C22_Witness ==
    /\ dec.op = "unpack_uint24"
    /\ dec.pos > 0
    /\ dec.result.outcome = "return"
    /\ dec.data[dec.pos + 1] # dec.data[dec.pos + 3]
    /\ dec.result.value >= 65536

\* the value of a hex digit of either case
HexValue ==
    LowerHexValue @@ ("A" :> 10) @@ ("B" :> 11) @@ ("C" :> 12) @@ ("D" :> 13)
    @@ ("E" :> 14) @@ ("F" :> 15)

\* str is the hex digits of bytes, with or without a leading "0x"
Spells(str, bytes) ==
    \E k \in {0, 2} :
       /\ Len(str) = k + 2 * Len(bytes)
       /\ (k = 2) => (str[1] = "0" /\ str[2] = "x")
       /\ \A i \in 1..Len(bytes) :
             /\ str[k + 2 * i - 1] \in DOMAIN HexValue
             /\ str[k + 2 * i] \in DOMAIN HexValue
             /\ 16 * HexValue[str[k + 2 * i - 1]] + HexValue[str[k + 2 * i]] = bytes[i]

\* the byte strings the extraData fields of the model spell
SpelledExtraData == ExtraDataBytes \cup {<<75, 0, 0, 0, 0, 0, 0, 5>>}

\* C23: for every extraData hex string, with or without "0x", that spells at
\* least 7 bytes, extract_proposal_id_from_extradata returns the big-endian
\* value of bytes 1..6, whatever byte 0 and the bytes from index 7 on are;
\* 0x4b000000000005 yields 5
C23_ExtraDataValue ==
    dec.op = "extract_proposal_id_from_extradata" =>
        /\ \A bytes \in SpelledExtraData :
              (Spells(dec.data, bytes) /\ Len(bytes) >= 7) =>
                  /\ Len(dec.result.value) = 1
                  /\ IsBigEndianValueOf(dec.result.value[1], SubSeq(bytes, 2, 7))
        /\ dec.data = GoodExtraData => dec.result.value = <<<<5>>>>

\* an extraction from a field without "0x", with config byte 0 and with bytes
\* after the id
C23_Witness ==
    /\ dec.op = "extract_proposal_id_from_extradata"
    /\ Len(dec.data) > 14
    /\ dec.data[1] = "0" /\ dec.data[2] = "0"
    /\ dec.result.value = <<<<255, 2, 3, 4, 5, 6>>>>

\* the block of the call has an extraData field spelling fewer than 7 bytes
ShortExtraData(block) ==
    /\ block # <<>>
    /\ \E bytes \in SpelledExtraData : Spells(block[1].extraData, bytes) /\ Len(bytes) < 7

\* C24: for every extraData field spelling fewer than 7 bytes, the empty field
\* included, extract_proposal_id_from_extradata returns None,
\* parse_l2_block_anchor_tx returns None for the block, and neither call
\* changes proposal_block_cache
C24_ExtraDataFailure ==
    [][(dec.op = "none" /\ dec'.op # "none" /\ ShortExtraData(dec.fields[1].block)) =>
          /\ dec'.op \in {"extract_proposal_id_from_extradata", "parse_l2_block_anchor_tx"} =>
                dec'.result.value = <<>>
          /\ proposal_block_cache' = proposal_block_cache]_vars

\* a block with a 6-byte extraData field was parsed while the cache held an entry
C24_Witness ==
    /\ dec.op = "parse_l2_block_anchor_tx"
    /\ dec.fields[1].block # <<>>
    /\ Len(dec.fields[1].block[1].extraData) = 14
    /\ dec.result.value = <<>>
    /\ proposal_block_cache # EmptyDict

\* tx_input spells the anchorV4 selector followed by exactly the three
\* checkpoint words, word 0 holding a uint48
ValidAnchorInput(tx_input) ==
    \E bytes \in TxInputBytes :
       /\ Spells(tx_input, bytes)
       /\ Len(bytes) = 4 + 32 * 3
       /\ slice(bytes, 0, 4) = AnchorSelector
       /\ \A i \in 5..30 : bytes[i] = 0

\* C25: for every valid anchor call-input the Web3.py decode and the manual
\* fallback of decode_anchor_tx_input yield the same anchor number, which is
\* what the call returns with or without a contract
C25_AnchorPathsAgree ==
    (dec.op = "decode_anchor_tx_input" /\ ValidAnchorInput(dec.data)) =>
        /\ decode_anchor_via_abi("anchor_abi", dec.data) # <<>>
        /\ decode_anchor_via_abi("anchor_abi", dec.data) = decode_anchor_manually(dec.data)
        /\ dec.result.value = decode_anchor_manually(dec.data)

\* a valid input holding anchor number 5 was decoded through the contract
C25_Witness ==
    /\ dec.op = "decode_anchor_tx_input"
    /\ dec.fields[1].l2_contract = "anchor_abi"
    /\ ValidAnchorInput(dec.data)
    /\ decode_anchor_via_abi("anchor_abi", dec.data) = <<<<5>>>>
    /\ dec.result.value = <<<<5>>>>

\* tx_input spells fewer than 100 bytes
ShortAnchorInput(tx_input) ==
    \E bytes \in TxInputBytes : Spells(tx_input, bytes) /\ Len(bytes) < 4 + 32 * 3

\* C26: for every call-input of fewer than 100 bytes decode_anchor_tx_input
\* returns None, and parse_l2_block_anchor_tx returns None for a block whose
\* first transaction carries it
C26_ShortInputRejected ==
    /\ (dec.op = "decode_anchor_tx_input" /\ ShortAnchorInput(dec.data)) =>
           dec.result.value = <<>>
    /\ (/\ dec.op = "parse_l2_block_anchor_tx"
        /\ dec.fields[1].block # <<>>
        /\ dec.fields[1].block[1].transactions # <<>>
        /\ ShortAnchorInput(dec.fields[1].block[1].transactions[1].input)) =>
           dec.result.value = <<>>

\* a block whose anchor transaction has a 99-byte input was parsed
C26_Witness ==
    /\ dec.op = "parse_l2_block_anchor_tx"
    /\ dec.fields[1].block # <<>>
    /\ dec.fields[1].block[1].transactions # <<>>
    /\ Len(dec.fields[1].block[1].transactions[1].input) = 2 + 2 * 99
    /\ dec.fields[1].l2_contract = "anchor_abi"
    /\ dec.result.value = <<>>

\* tx_input spells at least 100 bytes that do not start with the anchorV4 selector
WrongSelectorInput(tx_input) ==
    \E bytes \in TxInputBytes :
       /\ Spells(tx_input, bytes)
       /\ Len(bytes) >= 4 + 32 * 3
       /\ slice(bytes, 0, 4) # AnchorSelector

\* C27: for every call-input of at least 100 bytes whose selector is not the
\* one of anchorV4, decode_anchor_tx_input returns None
C27_WrongSelectorRejected ==
    (dec.op = "decode_anchor_tx_input" /\ WrongSelectorInput(dec.data)) =>
        dec.result.value = <<>>

\* no get_logs call of the pass raised
PassQueriesSucceeded == \A i \in DOMAIN run.get_logs : ~run.get_logs[i].failed

HasTask(g) == \E t \in DOMAIN run.tasks : run.tasks[t].group = groups[g]

\* the blocks of [true_start, true_end] that decode are the blocks of
\* anchor_infos, in increasing order
DecodableBlocksParsed ==
    /\ \A b \in true_range[1]..true_range[2] :
          IF parse_l2_block_anchor_tx(b) = <<>>
          THEN \A i \in DOMAIN anchor_infos : anchor_infos[i].l2_block_number # b
          ELSE \E i \in DOMAIN anchor_infos : anchor_infos[i] = parse_l2_block_anchor_tx(b)[1]
    /\ \A i \in DOMAIN anchor_infos :
          /\ anchor_infos[i].l2_block_number \in true_range[1]..true_range[2]
          /\ \A j \in DOMAIN anchor_infos :
                i < j => anchor_infos[i].l2_block_number < anchor_infos[j].l2_block_number

\* the tasks that were created and have not ended
InFlight == {t \in DOMAIN run.tasks : run.tasks[t].pc # "finished"}

\* the groups whose L1 inclusion block resolved to a block
FoundGroups == {g \in DOMAIN groups : run.resolved[g] # None}

\* the number of submissions acc_odds admits among k groups that take a turn:
\* it starts at 1, gains block_running_ratio per turn and pays 1 per
\* submission, at most one submission per turn
AdmittedAmong(k) ==
    LET earned == (RatioDenominator + k * run.block_running_ratio) \div RatioDenominator
    IN IF earned < k THEN earned ELSE k

\* C29 as stated: after a correlation pass every group was resolved, a group
\* resolved to None has no task, running_count counts the tasks, every group
\* resolved to a block has a task, and every decodable block of the parsed
\* range was parsed
C29_SkipAndContinue ==
    (pc \in {"gather", "done"} /\ groups # <<>>) =>
        /\ Len(run.resolved) = Len(groups)
        /\ \A g \in DOMAIN groups : run.resolved[g] = None => ~HasTask(g)
        /\ run.running_count = Cardinality(InFlight)
        /\ \A g \in FoundGroups : HasTask(g)
        /\ DecodableBlocksParsed

\* C29: after a correlation pass every group was resolved; a group resolved to
\* None has no task and takes no turn in acc_odds: the tasks are tasks of
\* groups resolved to a block, each with that block, and running_count, the
\* number of tasks, is the number acc_odds admits among the found groups alone
\* (all of them when block_running_ratio is 1); every decodable block of the
\* parsed range was parsed, whatever the blocks between them
C29_SkipAndContinueSampled ==
    (pc \in {"gather", "done"} /\ groups # <<>>) =>
        /\ Len(run.resolved) = Len(groups)
        /\ \A g \in DOMAIN groups : run.resolved[g] = None => ~HasTask(g)
        /\ \A t \in DOMAIN run.tasks :
              \E g \in FoundGroups :
                 /\ run.tasks[t].group = groups[g]
                 /\ run.tasks[t].l1_inclusion_block = run.resolved[g]
        /\ run.running_count = Cardinality(InFlight)
        /\ Len(run.tasks) = AdmittedAmong(Cardinality(FoundGroups))
        /\ run.block_running_ratio = RatioDenominator => \A g \in FoundGroups : HasTask(g)
        /\ DecodableBlocksParsed

\* a pass over [0, 2] whose middle block does not decode: the first group
\* resolved to None and the second was submitted
C29_Witness ==
    /\ pc = "gather"
    /\ l2_block_range = <<0, 2>>
    /\ l2_chain[1] = <<>>
    /\ Len(groups) = 2
    /\ run.resolved[1] = None
    /\ run.resolved[2] # None
    /\ HasTask(2)
    /\ Len(run.tasks) = 1

\* C30: in a correlation pass over [start, end], if the start block or the end
\* block does not decode, no groups are formed, no get_logs call is issued, the
\* cache stays as it was and no task is created
C30_HardStopOnRequestedBlock ==
    (parse_l2_block_anchor_tx(l2_block_range[1]) = <<>>
     \/ parse_l2_block_anchor_tx(l2_block_range[2]) = <<>>) =>
        /\ groups = <<>>
        /\ run.get_logs = <<>>
        /\ proposal_block_cache = EmptyDict
        /\ run.tasks = <<>>
        /\ run.running_count = 0

\* the uint16 at offset pos of data
CountAt(data, pos) == 256 * data[pos + 1] + data[pos + 2]

\* offset of the sources_count field: after id, proposer, two timestamps, parent
\* hash, origin block number, origin block hash and basefee_sharing_pctg
SourcesCountOffset == 6 + 20 + 6 + 6 + 32 + 6 + 32 + 1

\* offset at which source i of data starts (i = count + 1: where the sources end)
RECURSIVE SourceOffset(_, _)
SourceOffset(data, i) ==
    IF i = 1 THEN SourcesCountOffset + 2
    ELSE SourceOffset(data, i - 1) + 1 + 2
         + 32 * CountAt(data, SourceOffset(data, i - 1) + 1) + 3 + 6

\* the counts of data demand no more bytes than data holds
RECURSIVE CountsFitFrom(_, _, _)
CountsFitFrom(data, i, remaining) ==
    IF remaining = 0 THEN SourceOffset(data, i) + 32 <= Len(data)
    ELSE /\ SourceOffset(data, i) + 3 <= Len(data)
         /\ CountsFitFrom(data, i + 1, remaining - 1)

CountsFit(data) ==
    /\ SourcesCountOffset + 2 <= Len(data)
    /\ CountsFitFrom(data, 1, CountAt(data, SourcesCountOffset))

\* C33: decode_event_data succeeds exactly on the buffers whose counts demand
\* no more bytes than the buffer holds; the derivation then has sources_count
\* sources in buffer order, source i has blob_hashes_count_i hashes in buffer
\* order and is_forced_inclusion iff its flag byte is nonzero; otherwise the
\* call raises and returns no record
C33_CountDrivenAllOrNothing ==
    dec.op = "decode_event_data" =>
        IF CountsFit(dec.data)
        THEN /\ dec.result.outcome = "return"
             /\ LET sources == dec.result.value.derivation.sources
                IN /\ Len(sources) = CountAt(dec.data, SourcesCountOffset)
                   /\ \A i \in DOMAIN sources :
                         LET at == SourceOffset(dec.data, i)
                             blob_hashes == sources[i].blob_slice.blob_hashes
                         IN /\ sources[i].is_forced_inclusion = (dec.data[at + 1] # 0)
                            /\ Len(blob_hashes) = CountAt(dec.data, at + 1)
                            /\ \A h \in DOMAIN blob_hashes :
                                  IsHexOf(blob_hashes[h],
                                          slice(dec.data, at + 3 + 32 * (h - 1), 32))
        ELSE /\ dec.result.outcome = "raise"
             /\ "value" \notin DOMAIN dec.result

\* a decoded payload with two sources, a flag byte that is neither 0 nor 1 and
\* a blob hash
C33_Witness ==
    /\ dec.op = "decode_event_data"
    /\ dec.result.outcome = "return"
    /\ Len(dec.result.value.derivation.sources) = 2
    /\ \E i \in 1..2 :
          /\ dec.data[SourceOffset(dec.data, i) + 1] > 1
          /\ dec.result.value.derivation.sources[i].is_forced_inclusion
          /\ dec.result.value.derivation.sources[i].blob_slice.blob_hashes # <<>>

\* C34: for every buffer b on which decode_event_data succeeds and every byte
\* string t, decoding b followed by t succeeds and returns the record of b
C34_TrailingBytesIgnored ==
    dec.op = "decode_event_data" =>
        LET payload == encode_event_data(dec.fields[1])
        IN (Len(dec.data) >= Len(payload) /\ SubSeq(dec.data, 1, Len(payload)) = payload) =>
              /\ dec.result.outcome = "return"
              /\ DecodesToFields(dec.result.value, dec.fields[1])
              /\ dec.result = decode_event_data(payload)

\* a payload followed by trailing bytes was decoded
C34_Witness ==
    /\ dec.op = "decode_event_data"
    /\ Len(dec.data) > Len(encode_event_data(dec.fields[1]))
    /\ dec.result.outcome = "return"
    /\ dec.result.value.derivation.sources # <<>>

\* C35: parse_l2_block_anchor_tx(n) returns an AnchorTxInfo iff get_l2_block
\* returns a block, its extraData yields a proposal_id, it has a transaction
\* and the input of the first transaction is not empty and decodes to an
\* anchor number; the info then holds n, that proposal_id and that anchor
\* number; in every other case it returns None, and it never raises
C35_ParseBlockIff ==
    dec.op = "parse_l2_block_anchor_tx" =>
        LET block == dec.fields[1].block
            proposal_id == extract_proposal_id_from_extradata(block[1].extraData)
            tx_input == block[1].transactions[1].input
            anchor_number == decode_anchor_tx_input(dec.fields[1].l2_contract, tx_input)
        IN /\ dec.result.outcome = "return"
           /\ IF /\ block # <<>>
                 /\ proposal_id # <<>>
                 /\ block[1].transactions # <<>>
                 /\ Len(tx_input) > 2
                 /\ anchor_number # <<>>
              THEN dec.result.value =
                      <<[proposal_id |-> proposal_id[1], anchor_number |-> anchor_number[1],
                         l2_block_number |-> dec.fields[1].l2_block_number]>>
              ELSE dec.result.value = <<>>

\* a block of two transactions was parsed: the anchor number is the one of the
\* first, the second has another selector and another number
C35_Witness ==
    /\ dec.op = "parse_l2_block_anchor_tx"
    /\ dec.fields[1].block # <<>>
    /\ Len(dec.fields[1].block[1].transactions) = 2
    /\ dec.fields[1].block[1].transactions[2].input = OtherTxInput
    /\ dec.fields[1].l2_block_number = 2
    /\ dec.result.value = <<[proposal_id |-> <<5>>, anchor_number |-> <<2>>, l2_block_number |-> 2]>>

\* the number of positions of the sequence seq that hold x
Occurrences(seq, x) == Cardinality({i \in DOMAIN seq : seq[i] = x})

\* C36: in a pass over [start, end] with start <= end whose start block
\* decodes, true_start <= start and true_end >= end, and every block of
\* [true_start, true_end] that decodes is in exactly one group, exactly once,
\* the blocks of the groups being in ascending order
C36_ExpansionCoversRequest ==
    (/\ l2_block_range[1] <= l2_block_range[2]
     /\ parse_l2_block_anchor_tx(l2_block_range[1]) # <<>>
     /\ pc \notin {"boundaries", "parse"}) =>
        /\ true_range[1] <= l2_block_range[1]
        /\ true_range[2] >= l2_block_range[2]
        /\ \A b \in true_range[1]..true_range[2] :
              parse_l2_block_anchor_tx(b) # <<>> =>
                 /\ Occurrences(Flatten(groups), b) = 1
                 /\ Cardinality({g \in DOMAIN groups :
                                   Occurrences(groups[g].l2_block_numbers, b) > 0}) = 1
        /\ \A i, j \in DOMAIN Flatten(groups) :
              i < j => Flatten(groups)[i] < Flatten(groups)[j]

\* a pass over [1, 1] inside a proposal of three blocks: the range grew to
\* [0, 2] on both sides and the three blocks are one group
C36_Witness ==
    /\ pc = "batch_normal"
    /\ l2_block_range = <<1, 1>>
    /\ true_range = <<0, 2>>
    /\ Len(groups) = 1
    /\ groups[1].l2_block_numbers = <<0, 1, 2>>

\* the window of the batch query of the normal proposals of the pass
NormalWindow == <<min_anchor(groups) + 1, max_anchor(groups) + NormalSearchAhead>>

\* the window of the batch query of the bond proposals of the pass
BondWindow ==
    <<Max2(1, min_anchor(groups) - BondSearchBack), max_anchor(groups) + NormalSearchAhead>>

\* the windows of the individual searches of the groups of the pass
IndividualWindows ==
    {<<groups[g].anchor_number + 1, groups[g].anchor_number + IndividualSearchSpan>> :
       g \in DOMAIN groups}

\* C37: a correlation pass issues at most two get_logs calls, the first over
\* [min_anchor + 1, max_anchor + 96] for the normal proposals and the second
\* over [max(1, min_anchor - 200), max_anchor + 96] for the bond proposals;
\* after them the proposal_id of every group is a key of the cache, so every
\* find_l1_inclusion_block call of the pass is a cache hit and no search over
\* [anchor + 1, anchor + 128] is issued
C37_AtMostTwoQueries ==
    /\ Len(run.get_logs) <= 2
    /\ Len(run.get_logs) >= 1 => run.get_logs[1].search = NormalWindow
    /\ Len(run.get_logs) = 2 => run.get_logs[2].search = BondWindow
    /\ \A i \in DOMAIN run.get_logs : run.get_logs[i].search \notin IndividualWindows
    /\ (pc \in {"resolve", "gather", "done"} /\ groups # <<>>) =>
          /\ \A g \in DOMAIN groups : groups[g].proposal_id \in DOMAIN proposal_block_cache
          /\ call.op = "find" => (call.hits = call.requested /\ call.get_logs = <<>>)

\* the group of a pass was resolved after both batch queries, the normal one
\* having raised: the find_l1_inclusion_block call hit the cache
C37_Witness ==
    /\ pc = "resolve"
    /\ Len(groups) = 1
    /\ run.next_group = 2
    /\ Len(run.get_logs) = 2
    /\ run.get_logs[1].failed
    /\ call.op = "find"
    /\ call.hits = {groups[1].proposal_id}

\* the decoder accepted the payload EVENT_DATA spells
PayloadAccepted == dec.result.decoded # <<>>

\* C32: for every payload the decoder accepts, main completes and its output
\* holds the CoreState fields, last_proposal_block_id among them, after the
\* proposal and derivation fields
C32_MainReportsCoreState ==
    (dec.op = "main" /\ PayloadAccepted) =>
        /\ dec.result.outcome = "return"
        /\ \E i, j, k \in DOMAIN dec.result.printed :
              /\ i < j /\ j < k
              /\ dec.result.printed[i].text = "id"
              /\ dec.result.printed[j].text = "origin_block_number"
              /\ dec.result.printed[k].text = "last_proposal_block_id"

\* the step is a step of a task: a task that existed changed
IsTaskStep == \E t \in DOMAIN run.tasks : run'.tasks[t] # run.tasks[t]

\* the step issued one get_logs call for exactly the keys it added to the cache
IsResolverWrite ==
    /\ ~IsTaskStep
    /\ call'.op \in {"batch", "find"}
    /\ Len(run'.get_logs) = Len(run.get_logs) + 1
    /\ run'.get_logs[Len(run'.get_logs)].ids
          = DOMAIN proposal_block_cache' \ DOMAIN proposal_block_cache

\* C31: while the tasks of a pass are interleaved at their suspension points,
\* the cache changes only in a step of batch_find_proposal_blocks or
\* find_l1_inclusion_block, which looks up, queries and writes in one step;
\* an entry once written is never changed or removed (no lost update) and no
\* proposal_id is searched by two get_logs calls
C31_SingleWriterCache ==
    /\ [][/\ \A id \in DOMAIN proposal_block_cache :
               /\ id \in DOMAIN proposal_block_cache'
               /\ proposal_block_cache'[id] = proposal_block_cache[id]
          /\ proposal_block_cache' # proposal_block_cache => IsResolverWrite
          /\ IsTaskStep => proposal_block_cache' = proposal_block_cache]_vars
    /\ [](\A i, j \in DOMAIN run.get_logs :
            i < j => run.get_logs[i].ids \cap run.get_logs[j].ids = {})

\* the second group is resolved from the cache while the task of the first
\* is between two polls; both batch queries were issued
C31_Witness ==
    /\ pc = "resolve"
    /\ run.next_group = 3
    /\ call.op = "find"
    /\ call.hits = {groups[2].proposal_id}
    /\ Len(run.tasks) = 2
    /\ run.tasks[1].pc = "polling"
    /\ run.tasks[1].log # <<>>
    /\ Len(run.get_logs) = 1
    /\ DOMAIN proposal_block_cache = {1, 1 + BondOffset}

\* C38: at every state of a pass running_count is the number of tasks that
\* were created and have not ended, it is never negative and it is 0 once the
\* tasks were gathered; the step in which a task ends, however it ends,
\* decrements it by exactly one, and a task that ended never runs again
C38_RunningCountExact ==
    /\ [](/\ run.running_count = Cardinality(InFlight)
          /\ run.running_count >= 0
          /\ pc = "done" => run.running_count = 0)
    /\ [][\A t \in DOMAIN run.tasks :
             /\ (run.tasks[t].pc # "finished" /\ run'.tasks[t].pc = "finished") =>
                    run'.running_count = run.running_count - 1
             /\ run.tasks[t].pc = "finished" => run'.tasks[t] = run.tasks[t]]_vars

\* a pass of three tasks was gathered: one task timed out before its first
\* query and ended by the exception, one timed out later and one reached
\* max_retries
C38_Witness ==
    /\ pc = "done"
    /\ Len(run.tasks) = 3
    /\ run.running_count = 0
    /\ \E t1, t2, t3 \in DOMAIN run.tasks :
          /\ run.tasks[t1].broke = "timeout" /\ run.tasks[t1].exit = "raise"
          /\ run.tasks[t2].broke = "timeout" /\ run.tasks[t2].exit = "return"
          /\ run.tasks[t3].broke = "max_retries" /\ run.tasks[t3].exit = "return"

\* the entries of the aggregate requests posted so far, in order, followed by
\* the entries of the pending list
AggregateEntries ==
    Concat([i \in DOMAIN run.aggregate_posts |-> run.aggregate_posts[i].proposals])
    \o run.pending_proposals

\* the tasks whose polling loop ended on a proof
ProvedTasks == {t \in DOMAIN run.tasks : run.tasks[t].broke = "proof"}

\* C40: with aggregate = n > 0, under every interleaving of the tasks, the
\* proposal of each task that completed with a proof is exactly once in the
\* pending list or in an aggregate request, and no other entry is; the
\* pending list holds fewer than n entries at every suspension point; every
\* request posted by a task holds exactly the n entries that were pending,
\* whether or not the post succeeded; at the end of the pass the remainder
\* was posted as the last request and the list is empty
C40_AggregationBatching ==
    run.aggregate > 0 =>
        /\ \A t \in DOMAIN run.tasks :
              Occurrences(AggregateEntries, proposal_data(run.tasks[t]))
                 = IF t \in ProvedTasks THEN 1 ELSE 0
        /\ Len(AggregateEntries) = Cardinality(ProvedTasks)
        /\ Len(run.pending_proposals) < run.aggregate
        /\ pc # "done" =>
              \A i \in DOMAIN run.aggregate_posts :
                 Len(run.aggregate_posts[i].proposals) = run.aggregate
        /\ pc = "done" =>
              /\ run.pending_proposals = <<>>
              /\ \A i \in DOMAIN run.aggregate_posts :
                    /\ Len(run.aggregate_posts[i].proposals) >= 1
                    /\ Len(run.aggregate_posts[i].proposals) <= run.aggregate
                    /\ i < Len(run.aggregate_posts) =>
                          Len(run.aggregate_posts[i].proposals) = run.aggregate

\* a pass of three proved proposals with aggregate = 2: the request of the
\* first two was refused and the third was posted at the end of the pass
C40_Witness ==
    /\ pc = "done"
    /\ run.aggregate = 2
    /\ Cardinality(ProvedTasks) = 3
    /\ Len(run.aggregate_posts) = 2
    /\ Len(run.aggregate_posts[1].proposals) = 2
    /\ ~run.aggregate_posts[1].ok
    /\ Len(run.aggregate_posts[2].proposals) = 1
    /\ run.pending_proposals = <<>>

\* the responses whose data is not empty
DataResponses == {"registered", "work_in_progress", "proof", "unhandled"}

\* the number of error responses of log since its last response with data
RECURSIVE ErrorsSinceData(_)
ErrorsSinceData(log) ==
    IF log = <<>> THEN 0
    ELSE LET last == log[Len(log)]
             front == SubSeq(log, 1, Len(log) - 1)
         IN IF last \in DataResponses THEN 0
            ELSE IF last = "error" THEN 1 + ErrorsSinceData(front)
            ELSE ErrorsSinceData(front)

\* the step is an iteration of the polling loop of task t
PolledIn(t) == run.tasks[t].pc # "finished" /\ run'.tasks[t] # run.tasks[t]

\* C39: an iteration of the polling loop that starts after the timeout ends
\* the loop without a query; otherwise the loop ends in the iteration exactly
\* when the response carries a proof or is an error that brings the number of
\* error responses since the last response with data to max_retries; a
\* response registered or work_in_progress resets the count and the loop goes
\* on. Under a status server that from some point on returns a proof, or
\* errors for ever, the loop of a task ends
C39_PollingLoopEnds ==
    /\ [][\A t \in DOMAIN run.tasks :
             PolledIn(t) =>
                LET before == run.tasks[t]
                    after == run'.tasks[t]
                    response == after.log[Len(after.log)]
                IN IF after.log = before.log
                   THEN after.pc = "finished" /\ after.broke = "timeout"
                   ELSE /\ after.log = Append(before.log, response)
                        /\ after.pc = "finished" <=>
                              \/ response = "proof"
                              \/ /\ response = "error"
                                 /\ ErrorsSinceData(after.log) = run.max_retries
                        /\ after.broke = (IF response = "proof" THEN "proof"
                                          ELSE IF after.pc = "finished" THEN "max_retries"
                                          ELSE "none")
                        /\ after.retry_count = ErrorsSinceData(after.log)
                        /\ response \in {"registered", "work_in_progress"} =>
                              after.retry_count = 0 /\ after.pc = "polling"]_vars
    /\ (Len(run.tasks) = 1) ~> (Len(run.tasks) = 1 /\ run.tasks[1].pc = "finished")

\* the loop ended on max_retries = 2: the error before work_in_progress did
\* not count, the two errors after it did
C39_Witness ==
    /\ Len(run.tasks) = 1
    /\ run.max_retries = 2
    /\ run.tasks[1].pc = "finished"
    /\ run.tasks[1].broke = "max_retries"
    /\ run.tasks[1].log = <<"error", "work_in_progress", "error", "error">>

====
